---- MODULE Spec2Model ----
(***************************************************************************)
(* Model of the helm-app-operator reconciler and release manager.          *)
(*                                                                         *)
(* One custom resource (CR) instance is tracked.  The release storage is   *)
(* the in-memory Helm v2 driver created in main(); the records held for    *)
(* the CR's release name are the set `storage`.  Every run of              *)
(* HelmOperatorReconciler.Reconcile is one atomic action (the controller   *)
(* framework serialises reconciles of one key); the outcomes of the calls  *)
(* it makes on the cluster and on Tiller are its inputs.                   *)
(***************************************************************************)
EXTENDS Integers, Sequences, FiniteSets, TLC

\* ---------------------------------------------------------------- bounds
\* Release versions are capped: a reconcile that would store a higher one
\* is not taken.
MaxVersion == 4

\* Longest watches file that is looked at.
MaxWatches == 2

\* Resource versions handed out by the API server are capped: a write that
\* would need a higher one is not taken.
MaxRV == 6

\* ------------------------------------------------------------- constants
finalizer == "uninstall-helm-release"
OtherFinalizer == "foregroundDeletion"

PhaseNone == ""
PhaseApplied == "Applied"
PhaseFailed == "Failed"
ReasonNone == ""
ReasonApplySuccessful == "ApplySuccessful"
ReasonApplyFailed == "ApplyFailed"

Status_UNKNOWN == "UNKNOWN"
Status_DEPLOYED == "DEPLOYED"
Status_SUPERSEDED == "SUPERSEDED"
Status_FAILED == "FAILED"
Status_PENDING_UPGRADE == "PENDING_UPGRADE"
Status_PENDING_ROLLBACK == "PENDING_ROLLBACK"

\* the nil *rpb.Release
NilRelease == [version |-> 0, code |-> "NIL", manifest |-> 0]

\* A manifest is identified by the replica count its Deployment document
\* carries; 0 is the empty manifest (and, for the cluster, "no resource").
EmptyManifest == 0
Absent == 0

\* cr.spec: the chart binds .spec.replicas to replicaCount.
Specs == {[replicaCount |-> 2], [replicaCount |-> 3]}

\* What an outsider can turn the deployed resource into: deleted, or scaled
\* to one replica.
DriftValues == {Absent, 1}

\* Rendering of the chart with the values of the CR's spec.
Render(spec) == spec.replicaCount

NotesOf(rel) == IF rel.code = "NIL" THEN "" ELSE "notes"

VARIABLES cr, storage, live, last, call

vars == <<cr, storage, live, last, call>>

\* `call` holds the arguments and the result of the last call of one of the
\* functions that do not touch the cluster (release name, renderer, watches);
\* the reconciler leaves it alone.
NoCall == [op |-> "none"]

\* the reconciler runs with a note taken of what Sync re-creates
Observed == [op |-> "observed"]

\* ------------------------------------------------------------ sequences
contains(l, s) == \E i \in 1..Len(l) : l[i] = s

\* the removal loop with the test inverted: it keeps the sentinel only
WithoutFinalizer_KeepsSentinel(l) == SelectSeq(l, LAMBDA x : x = finalizer)

\* the removal that sets an empty list
WithoutFinalizer_DropsAll(l) == <<>>

RECURSIVE WithoutFinalizer(_)
WithoutFinalizer(l) ==
    IF l = <<>> THEN <<>>
    ELSE IF Head(l) # finalizer
         THEN <<Head(l)>> \o WithoutFinalizer(Tail(l))
         ELSE WithoutFinalizer(Tail(l))

\* --------------------------------------------------------------- status
EmptyStatus ==
    [release |-> NilRelease, phase |-> PhaseNone, reason |-> ReasonNone, message |-> ""]

StatusFor(o) == o.status

SetRelease(s, rel) == [s EXCEPT !.release = rel]

\* SetPhase that leaves the message as it was
SetPhase_KeepsMessage(s, phase, reason, message) ==
    [s EXCEPT !.phase = phase, !.reason = reason]

SetPhase(s, phase, reason, message) ==
    [s EXCEPT !.phase = phase, !.reason = reason, !.message = message]

\* ------------------------------------------- release storage (in memory)
History(st) == st

DeployedAll(st) == {r \in st : r.code = Status_DEPLOYED}

Exists(st, version) == \E r \in st : r.version = version

Get(st, version) == CHOOSE r \in st : r.version = version

Last(st) == CHOOSE r \in st : \A q \in st : q.version <= r.version

Create(st, rel) == st \cup {rel}

Delete(st, version) == {r \in st : r.version # version}

\* recordRelease(r, reuse=true): storage Update of the record of r's version
Record(st, rel) == {r \in st : r.version # rel.version} \cup {rel}

WithCode(rel, code) == [rel EXCEPT !.code = code]

\* ------------------------------------------------- Tiller release server
\* Outcomes of one Tiller call: "ok"; "failNil" (error, no release in the
\* response); "failRender" (rendering failed: install answers with a partial
\* release that was never stored, update answers with no release);
\* "failPerform" (applying the manifest failed after the release was stored).
Outcomes == {"ok", "failNil", "failRender", "failPerform"}

Resp(st, lv, rel, err) == [storage |-> st, live |-> lv, rel |-> rel, err |-> err]

\* tiller.UninstallRelease with Purge: fails on an empty history or when a
\* pre-delete hook fails (nothing stored changes); otherwise every version is
\* purged and the resources are deleted.
TillerUninstallRelease(st, lv, ok) ==
    IF History(st) = {} THEN Resp(st, lv, NilRelease, <<"release: not found">>)
    ELSE IF ~ok THEN Resp(st, lv, Last(st), <<"uninstall failed">>)
    ELSE Resp({}, Absent, Last(st), <<>>)

\* tiller.InstallRelease (no name reuse): revision 1.
TillerInstallRelease(st, lv, spec, out) ==
    IF History(st) # {} THEN Resp(st, lv, NilRelease, <<"install failed">>)
    ELSE CASE out = "ok" ->
                LET r == [version |-> 1, code |-> Status_DEPLOYED, manifest |-> Render(spec)]
                IN  Resp({r}, r.manifest, r, <<>>)
           [] out = "failNil" -> Resp(st, lv, NilRelease, <<"install failed">>)
           [] out = "failRender" ->
                Resp(st, lv, [version |-> 0, code |-> Status_UNKNOWN, manifest |-> EmptyManifest],
                     <<"install failed">>)
           [] out = "failPerform" ->
                LET r == [version |-> 1, code |-> Status_FAILED, manifest |-> Render(spec)]
                IN  Resp({r}, lv, r, <<"install failed">>)

\* tiller.UpdateRelease: `cur` is what storage.Deployed answers; the new
\* revision is Last+1.
TillerUpdateRelease(st, lv, spec, cur, out, dryRun) ==
    IF cur = NilRelease \/ out \in {"failNil", "failRender"}
    THEN Resp(st, lv, NilRelease, <<"update failed">>)
    ELSE LET upd == [version |-> Last(st).version + 1, code |-> Status_PENDING_UPGRADE,
                     manifest |-> Render(spec)]
         IN  IF dryRun THEN Resp(st, lv, upd, <<>>)
             ELSE IF out = "failPerform"
             THEN Resp(Record(Record(Create(st, upd), cur), WithCode(upd, Status_FAILED)), lv,
                       WithCode(upd, Status_FAILED), <<"update failed">>)
             ELSE Resp(Record(Record(Create(st, upd), WithCode(cur, Status_SUPERSEDED)),
                              WithCode(upd, Status_DEPLOYED)),
                       upd.manifest, WithCode(upd, Status_DEPLOYED), <<>>)

\* tiller.RollbackRelease with Force and Version 0: the target copies the
\* revision before the last one.
SupersedeDeployed(st) ==
    {IF r.code = Status_DEPLOYED THEN WithCode(r, Status_SUPERSEDED) ELSE r : r \in st}

TillerRollbackRelease(st, lv, ok) ==
    IF History(st) = {} \/ ~Exists(st, Last(st).version - 1)
    THEN Resp(st, lv, NilRelease, <<"rollback failed">>)
    ELSE LET cur == Last(st)
             prev == Get(st, cur.version - 1)
             tgt == [version |-> cur.version + 1, code |-> Status_PENDING_ROLLBACK,
                     manifest |-> prev.manifest]
         IN  IF ~ok
             THEN Resp(Record(Record(Create(st, tgt), WithCode(cur, Status_SUPERSEDED)),
                              WithCode(tgt, Status_FAILED)),
                       lv, WithCode(tgt, Status_FAILED), <<"rollback failed">>)
             ELSE Resp(Record(SupersedeDeployed(Create(st, tgt)), WithCode(tgt, Status_DEPLOYED)),
                       tgt.manifest, WithCode(tgt, Status_DEPLOYED), <<>>)

\* -------------------------------------------------------- release manager
ErrNotFound == <<"release not found">>

\* `response` is the release in the response of the first Tiller call.
MResp(st, lv, rel, err, tcalls, response) ==
    [storage |-> st, live |-> lv, rel |-> rel, err |-> err, tcalls |-> tcalls,
     response |-> response]

\* syncReleaseStatus that never re-creates anything.
syncReleaseStatus_Never(st, status) == st

\* manager.syncReleaseStatus: put status.release back when the storage has no
\* record of its version.
syncReleaseStatus(st, status) ==
    IF status.release = NilRelease THEN st
    ELSE IF Exists(st, status.release.version) THEN st
    ELSE Create(st, status.release)

\* a clean-up loop that deletes the FAILED versions only
DeleteStale_FailedOnly(st) == {r \in st : r.code # Status_FAILED}

\* the clean-up loop of Sync: delete every version that is not DEPLOYED
DeleteStale(st) == {r \in st : r.code = Status_DEPLOYED}

\* What storage.Deployed may answer: one of the DEPLOYED records (the nil
\* release stands for "has no deployed releases").
DeployedChoices(st) == IF DeployedAll(st) = {} THEN {NilRelease} ELSE DeployedAll(st)

\* manager.Sync.  `how` is the outcome of loading the chart and of the dry-run
\* update; `dep` is the answer of storage.Deployed.
Sync(st, lv, status, spec, how, dep) ==
    LET st2 == DeleteStale(syncReleaseStatus(st, status))
        cand == TillerUpdateRelease(st2, lv, spec, dep,
                                    IF how = "candErr" THEN "failRender" ELSE "ok", TRUE)
        base == [err |-> <<>>, storage |-> st2, isInstalled |-> FALSE,
                 isUpdateRequired |-> FALSE, deployedRelease |-> NilRelease,
                 recreated |-> (syncReleaseStatus(st, status) # st)]
    IN  IF how = "chartErr"
        THEN [base EXCEPT !.err = <<"failed to load chart and config">>]
        ELSE IF dep = NilRelease THEN base
        ELSE IF cand.err # <<>>
        THEN [base EXCEPT !.err = <<"failed to get candidate release">> \o cand.err,
                          !.isInstalled = TRUE, !.deployedRelease = dep]
        ELSE [base EXCEPT !.isInstalled = TRUE, !.deployedRelease = dep,
                          !.isUpdateRequired = (dep.manifest # cand.rel.manifest)]

\* uninstallRelease that swallows the error of a failed uninstall.
uninstallRelease_IgnoreError(st, lv, ok) ==
    IF Cardinality(History(st)) = 0 THEN MResp(st, lv, NilRelease, ErrNotFound, <<>>, NilRelease)
    ELSE LET r == TillerUninstallRelease(st, lv, ok)
         IN  MResp(r.storage, r.live, r.rel, <<>>, <<"UninstallRelease">>, r.rel)

\* uninstallRelease
uninstallRelease(st, lv, ok) ==
    IF Cardinality(History(st)) = 0 THEN MResp(st, lv, NilRelease, ErrNotFound, <<>>, NilRelease)
    ELSE LET r == TillerUninstallRelease(st, lv, ok)
         IN  MResp(r.storage, r.live, r.rel, r.err, <<"UninstallRelease">>, r.rel)

\* installRelease without the purge-uninstall of a failed partial install.
installRelease_NoCleanup(st, lv, spec, out, recover) ==
    LET r == TillerInstallRelease(st, lv, spec, out)
    IN  IF r.err # <<>>
        THEN MResp(r.storage, r.live, NilRelease, r.err, <<"InstallRelease">>, r.rel)
        ELSE MResp(r.storage, r.live, r.rel, <<>>, <<"InstallRelease">>, r.rel)

\* installRelease: purge-uninstall after a failed install that answered with
\* a release.
installRelease(st, lv, spec, out, recover) ==
    LET r == TillerInstallRelease(st, lv, spec, out)
        u == TillerUninstallRelease(r.storage, r.live, recover)
    IN  IF r.err # <<>>
        THEN IF r.rel # NilRelease
             THEN IF u.err # <<>>
                  THEN MResp(u.storage, u.live, NilRelease,
                             <<"failed to roll back failed installation">> \o u.err \o r.err,
                             <<"InstallRelease", "UninstallRelease">>, r.rel)
                  ELSE MResp(u.storage, u.live, NilRelease, r.err,
                             <<"InstallRelease", "UninstallRelease">>, r.rel)
             ELSE MResp(r.storage, r.live, NilRelease, r.err, <<"InstallRelease">>, r.rel)
        ELSE MResp(r.storage, r.live, r.rel, <<>>, <<"InstallRelease">>, r.rel)

\* updateRelease: forced rollback after a failed update that answered with a
\* release.
updateRelease(st, lv, spec, cur, out, recover) ==
    LET r == TillerUpdateRelease(st, lv, spec, cur, out, FALSE)
        b == TillerRollbackRelease(r.storage, r.live, recover)
    IN  IF r.err # <<>>
        THEN IF r.rel # NilRelease
             THEN IF b.err # <<>>
                  THEN MResp(b.storage, b.live, NilRelease,
                             <<"failed to roll back failed update">> \o b.err \o r.err,
                             <<"UpdateRelease", "RollbackRelease">>, r.rel)
                  ELSE MResp(b.storage, b.live, NilRelease, r.err,
                             <<"UpdateRelease", "RollbackRelease">>, r.rel)
             ELSE MResp(r.storage, r.live, NilRelease, r.err, <<"UpdateRelease">>, r.rel)
        ELSE MResp(r.storage, r.live, r.rel, <<>>, <<"UpdateRelease">>, r.rel)

\* reconcileRelease that only creates: a resource that exists is left alone.
reconcileRelease_CreateOnly(lv, expectedManifest, ok) ==
    IF lv = Absent
    THEN IF ok THEN [live |-> expectedManifest, err |-> <<>>, kcalls |-> <<"Create">>]
         ELSE [live |-> lv, err |-> <<"create error">>, kcalls |-> <<"Create">>]
    ELSE [live |-> lv, err |-> <<>>, kcalls |-> <<"Create">>]

\* reconcileRelease that logs a failed create or patch and returns nil.
reconcileRelease_SwallowsError(lv, expectedManifest, ok) ==
    IF lv = Absent
    THEN [live |-> IF ok THEN expectedManifest ELSE lv, err |-> <<>>, kcalls |-> <<"Create">>]
    ELSE [live |-> IF ok THEN expectedManifest ELSE lv, err |-> <<>>,
          kcalls |-> <<"Create", "Patch">>]

\* reconcileRelease: create the resource of the manifest; when it exists
\* already ("already exists"), merge-patch it with the manifest's object.
\* `ok` is the outcome of the call that decides (the create of a missing
\* resource, the patch of an existing one).
reconcileRelease(lv, expectedManifest, ok) ==
    IF lv = Absent
    THEN IF ok THEN [live |-> expectedManifest, err |-> <<>>, kcalls |-> <<"Create">>]
         ELSE [live |-> lv, err |-> <<"create error">>, kcalls |-> <<"Create">>]
    ELSE IF ok THEN [live |-> expectedManifest, err |-> <<>>, kcalls |-> <<"Create", "Patch">>]
         ELSE [live |-> lv, err |-> <<"patch error">>, kcalls |-> <<"Create", "Patch">>]

\* ------------------------------------------------------------ reconciler
\* The inputs of one Reconcile: the outcome of Client.Get, of Sync's chart
\* load and dry run, of the one Tiller operation it dispatches (for the drift
\* repair: of its create/patch calls), of the recovery call (purge-uninstall
\* or rollback) and of Client.Update.
InputFields ==
    [get : {"ok", "err"}, sync : {"ok", "chartErr", "candErr"}, op : Outcomes,
     recover : BOOLEAN, write : BOOLEAN]

\* One input per distinguishable run: a call that is not reached, or whose
\* outcome the code does not look at, keeps its "ok" value.
Inputs ==
    {in \in InputFields :
        /\ in.get = "err" => (in.sync = "ok" /\ in.op = "ok" /\ in.recover /\ in.write)
        /\ in.sync # "ok" => (in.op = "ok" /\ in.recover /\ in.write)
        /\ in.op # "ok" => in.write
        /\ in.op # "failPerform" => in.recover}

OkInput == [get |-> "ok", sync |-> "ok", op |-> "ok", recover |-> TRUE, write |-> TRUE]

\* The CR after the API server has removed it.
Gone ==
    [exists |-> FALSE, deleted |-> FALSE, finalizers |-> <<>>,
     spec |-> [replicaCount |-> 2], status |-> EmptyStatus]

\* Client.Update: on success the object is stored; an object that is being
\* deleted and has no finalizer left is removed by the API server.
ClientUpdate(old, new, ok) ==
    IF ~ok THEN old
    ELSE IF new.deleted /\ new.finalizers = <<>> THEN Gone
    ELSE new

UpdateErr(ok) == IF ok THEN <<>> ELSE <<"update conflict">>

\* updateResource that forgets to put the status into the object.
updateResource_DropsStatus(o, status, ok) == ClientUpdate(o, o, ok)

\* updateResource: the object is written with the new status.
updateResource(o, status, ok) == ClientUpdate(o, [o EXCEPT !.status = status], ok)

\* What is recorded about the reconcile that has just returned ("none": no
\* reconcile has run since the environment last changed something).  `tcalls`
\* are the calls that reached Tiller, `kcalls` those of the kube client;
\* `syncErr` is the error Sync returned;
\* `recreated` tells that Sync put status.release back into the storage
\* (noted only when the reconciler runs observed, see RecoverySpec).
NoLast ==
    [path |-> "none", calls |-> <<>>, tcalls |-> <<>>, err |-> <<>>, requeue |-> FALSE,
     deleted |-> FALSE, hasFinalizer |-> FALSE, isInstalled |-> FALSE,
     isUpdateRequired |-> FALSE, wrote |-> "none", deployedRelease |-> NilRelease,
     response |-> NilRelease, returned |-> NilRelease, kcalls |-> <<>>,
     recreated |-> FALSE, syncErr |-> <<>>]

\* Dispatch with the update test dropped: an installed release is always
\* drift-repaired.
Dispatch_NoUpdate(deleted, hasFinalizer, syncFailed, isInstalled, isUpdateRequired) ==
    IF ~deleted /\ ~hasFinalizer THEN "addfinalizer"
    ELSE IF syncFailed THEN "syncerr"
    ELSE IF deleted THEN (IF ~hasFinalizer THEN "terminated" ELSE "uninstall")
    ELSE IF ~isInstalled THEN "install"
    ELSE "repair"

\* Dispatch without the early return that adds the finalizer.
Dispatch_NoFinalizerFirst(deleted, hasFinalizer, syncFailed, isInstalled, isUpdateRequired) ==
    IF syncFailed THEN "syncerr"
    ELSE IF deleted THEN (IF ~hasFinalizer THEN "terminated" ELSE "uninstall")
    ELSE IF ~isInstalled THEN "install"
    ELSE IF isUpdateRequired THEN "update"
    ELSE "repair"

\* Dispatch that takes every CR under deletion for terminated.
Dispatch_NeverUninstall(deleted, hasFinalizer, syncFailed, isInstalled, isUpdateRequired) ==
    IF ~deleted /\ ~hasFinalizer THEN "addfinalizer"
    ELSE IF syncFailed THEN "syncerr"
    ELSE IF deleted THEN "terminated"
    ELSE IF ~isInstalled THEN "install"
    ELSE IF isUpdateRequired THEN "update"
    ELSE "repair"

\* Dispatch that goes on after a failed Sync.
Dispatch_IgnoreSyncError(deleted, hasFinalizer, syncFailed, isInstalled, isUpdateRequired) ==
    IF ~deleted /\ ~hasFinalizer THEN "addfinalizer"
    ELSE IF deleted THEN (IF ~hasFinalizer THEN "terminated" ELSE "uninstall")
    ELSE IF ~isInstalled THEN "install"
    ELSE IF isUpdateRequired THEN "update"
    ELSE "repair"

\* Dispatch without the return for a terminated CR: a CR under deletion that
\* has lost the sentinel is treated like a live one.
Dispatch_NoTerminatedReturn(deleted, hasFinalizer, syncFailed, isInstalled, isUpdateRequired) ==
    IF ~deleted /\ ~hasFinalizer THEN "addfinalizer"
    ELSE IF syncFailed THEN "syncerr"
    ELSE IF deleted /\ hasFinalizer THEN "uninstall"
    ELSE IF ~isInstalled THEN "install"
    ELSE IF isUpdateRequired THEN "update"
    ELSE "repair"

\* Dispatch without the drift-repair branch: an installed release is always
\* updated.
Dispatch_NoRepair(deleted, hasFinalizer, syncFailed, isInstalled, isUpdateRequired) ==
    IF ~deleted /\ ~hasFinalizer THEN "addfinalizer"
    ELSE IF syncFailed THEN "syncerr"
    ELSE IF deleted THEN (IF ~hasFinalizer THEN "terminated" ELSE "uninstall")
    ELSE IF ~isInstalled THEN "install"
    ELSE "update"

\* The branch Reconcile takes once the CR has been fetched.
Dispatch(deleted, hasFinalizer, syncFailed, isInstalled, isUpdateRequired) ==
    IF ~deleted /\ ~hasFinalizer THEN "addfinalizer"
    ELSE IF syncFailed THEN "syncerr"
    ELSE IF deleted THEN (IF ~hasFinalizer THEN "terminated" ELSE "uninstall")
    ELSE IF ~isInstalled THEN "install"
    ELSE IF isUpdateRequired THEN "update"
    ELSE "repair"

Finish(c, st, lv, l) ==
    /\ \A r \in st : r.version <= MaxVersion
    /\ cr' = c
    /\ storage' = st
    /\ live' = lv
    /\ last' = l
    /\ UNCHANGED call

\* The NotFound return with a requeue-after.
NotFoundResult_Requeue == [NoLast EXCEPT !.path = "notfound", !.requeue = TRUE]

\* Client.Get answered NotFound: Result{}, nil and nothing else.
NotFoundResult == [NoLast EXCEPT !.path = "notfound"]

\* HelmOperatorReconciler.Reconcile
Reconcile(in, dep) ==
    LET o == cr
        deleted == o.deleted
        pendingFinalizers == o.finalizers
        hasFinalizer == contains(pendingFinalizers, finalizer)
        status == StatusFor(o)
        sy == Sync(storage, live, status, o.spec, in.sync, dep)
        path == Dispatch(deleted, hasFinalizer, sy.err # <<>>, sy.isInstalled,
                         sy.isUpdateRequired)
        seen == [NoLast EXCEPT !.path = path, !.deleted = deleted,
                               !.hasFinalizer = hasFinalizer]
        synced == [seen EXCEPT !.calls = <<"Sync">>, !.isInstalled = sy.isInstalled,
                               !.isUpdateRequired = sy.isUpdateRequired,
                               !.deployedRelease = sy.deployedRelease,
                               !.recreated = (call = Observed /\ sy.recreated),
                               !.syncErr = sy.err]
        un == uninstallRelease(sy.storage, live, in.op = "ok")
        ins == installRelease(sy.storage, live, o.spec, in.op, in.recover)
        upd == updateRelease(sy.storage, live, o.spec, sy.deployedRelease, in.op, in.recover)
        rep == reconcileRelease(live, sy.deployedRelease.manifest, in.op = "ok")
        called(m, name) == [synced EXCEPT !.calls = <<"Sync", name>>, !.tcalls = m.tcalls,
                                          !.response = m.response, !.err = m.err]
        applied(rel) == SetPhase(SetRelease(status, rel), PhaseApplied, ReasonApplySuccessful,
                                 NotesOf(rel))
    IN
    IF ~o.exists
    THEN Finish(cr, storage, live, NotFoundResult)
    ELSE IF in.get = "err"
    THEN Finish(cr, storage, live, [NoLast EXCEPT !.path = "geterr", !.err = <<"get failed">>])
    ELSE CASE path = "addfinalizer" ->
                Finish(ClientUpdate(o, [o EXCEPT !.finalizers = Append(pendingFinalizers, finalizer)],
                                    in.write),
                       storage, live,
                       [seen EXCEPT !.wrote = "finalizers", !.err = UpdateErr(in.write)])
           [] path = "syncerr" ->
                Finish(cr, sy.storage, live, [synced EXCEPT !.err = sy.err])
           [] path = "terminated" ->
                Finish(cr, sy.storage, live, synced)
           [] path = "uninstall" ->
                IF un.err # <<>> /\ un.err # ErrNotFound
                THEN Finish(cr, un.storage, un.live, called(un, "UninstallRelease"))
                ELSE Finish(ClientUpdate(o, [o EXCEPT !.finalizers =
                                                        WithoutFinalizer(pendingFinalizers)],
                                         in.write),
                            un.storage, un.live,
                            [called(un, "UninstallRelease") EXCEPT
                                !.wrote = "finalizers", !.returned = un.rel,
                                !.err = UpdateErr(in.write)])
           [] path = "install" ->
                IF ins.err # <<>>
                THEN Finish(cr, ins.storage, ins.live, called(ins, "InstallRelease"))
                ELSE Finish(updateResource(o, applied(ins.rel), in.write),
                            ins.storage, ins.live,
                            [called(ins, "InstallRelease") EXCEPT
                                !.wrote = "status", !.returned = ins.rel, !.requeue = TRUE,
                                !.err = UpdateErr(in.write)])
           [] path = "update" ->
                IF upd.err # <<>>
                THEN Finish(cr, upd.storage, upd.live, called(upd, "UpdateRelease"))
                ELSE Finish(updateResource(o, applied(upd.rel), in.write),
                            upd.storage, upd.live,
                            [called(upd, "UpdateRelease") EXCEPT
                                !.wrote = "status", !.returned = upd.rel, !.requeue = TRUE,
                                !.err = UpdateErr(in.write)])
           [] path = "repair" ->
                IF rep.err # <<>>
                THEN Finish(cr, sy.storage, rep.live,
                            [synced EXCEPT !.calls = <<"Sync", "ReconcileRelease">>,
                                           !.kcalls = rep.kcalls, !.err = rep.err])
                ELSE Finish(cr, sy.storage, rep.live,
                            [synced EXCEPT !.calls = <<"Sync", "ReconcileRelease">>,
                                           !.kcalls = rep.kcalls,
                                           !.returned = sy.deployedRelease,
                                           !.requeue = TRUE])

\* ----------------------------------------------------------- environment
\* A user edits the spec of the CR.
UpdateSpec(s) ==
    /\ cr.exists /\ s # cr.spec
    /\ cr' = [cr EXCEPT !.spec = s]
    /\ last' = NoLast
    /\ UNCHANGED <<storage, live, call>>

\* A user deletes the CR: the API server sets the deletion timestamp, or
\* removes the object at once when it has no finalizer.
DeleteCR ==
    /\ cr.exists /\ ~cr.deleted
    /\ cr' = IF cr.finalizers = <<>> THEN Gone ELSE [cr EXCEPT !.deleted = TRUE]
    /\ last' = NoLast
    /\ UNCHANGED <<storage, live, call>>

\* Another controller removes its own finalizer from the CR under deletion.
RemoveOtherFinalizer ==
    /\ cr.exists /\ cr.deleted /\ contains(cr.finalizers, OtherFinalizer)
    /\ cr' = LET f == SelectSeq(cr.finalizers, LAMBDA x : x # OtherFinalizer)
             IN  IF f = <<>> THEN Gone ELSE [cr EXCEPT !.finalizers = f]
    /\ last' = NoLast
    /\ UNCHANGED <<storage, live, call>>

\* Somebody changes or deletes the deployed resource behind the operator's back.
Drift(v) ==
    /\ live # Absent /\ v # live
    /\ live' = v
    /\ last' = NoLast
    /\ UNCHANGED <<cr, storage, call>>

\* The operator process restarts: the in-memory storage starts out empty.
OperatorRestart ==
    /\ storage # {}
    /\ storage' = {}
    /\ last' = NoLast
    /\ UNCHANGED <<cr, live, call>>

\* ---------------------------------------------------------- specification
Init ==
    /\ \E f \in {<<>>, <<OtherFinalizer>>}, s \in Specs :
          cr = [exists |-> TRUE, deleted |-> FALSE, finalizers |-> f, spec |-> s,
                status |-> EmptyStatus]
    /\ storage = {}
    /\ live = Absent
    /\ last = NoLast
    /\ call = NoCall

ReconcileStep ==
    \E in \in Inputs :
       \E dep \in DeployedChoices(DeleteStale(syncReleaseStatus(storage, StatusFor(cr)))) :
          Reconcile(in, dep)

Next ==
    \/ ReconcileStep
    \/ \E s \in Specs : UpdateSpec(s)
    \/ DeleteCR
    \/ RemoveOtherFinalizer
    \/ \E v \in DriftValues : Drift(v)
    \/ OperatorRestart

Spec == Init /\ [][Next]_vars

\* Reconciles in which every cluster and backend call succeeds.
ReconcileOk ==
    \E dep \in DeployedChoices(DeleteStale(syncReleaseStatus(storage, StatusFor(cr)))) :
       Reconcile(OkInput, dep)

\* A CR that nobody deletes, reconciled fairly (the controller requeues every
\* key after the resync period and on every watch event).
CreateNext ==
    \/ ReconcileOk
    \/ \E s \in Specs : UpdateSpec(s)
    \/ \E v \in DriftValues : Drift(v)
    \/ OperatorRestart

CreateSpec == Init /\ [][CreateNext]_vars /\ WF_vars(ReconcileOk)

\* The same with deletion; the controllers that own the other finalizers are
\* scheduled fairly as well.
LiveNext ==
    \/ ReconcileOk
    \/ \E s \in Specs : UpdateSpec(s)
    \/ DeleteCR
    \/ RemoveOtherFinalizer
    \/ \E v \in DriftValues : Drift(v)
    \/ OperatorRestart

LiveSpec == Init /\ [][LiveNext]_vars /\ WF_vars(ReconcileOk) /\ WF_vars(RemoveOtherFinalizer)

\* A CR that nobody deletes, with every outcome of every call and with
\* operator restarts; the re-creations of Sync are noted.
RecoveryInit ==
    /\ \E s \in Specs :
          cr = [exists |-> TRUE, deleted |-> FALSE, finalizers |-> <<>>, spec |-> s,
                status |-> EmptyStatus]
    /\ storage = {}
    /\ live = Absent
    /\ last = NoLast
    /\ call = Observed

RecoveryNext ==
    \/ ReconcileStep
    \/ \E s \in Specs : UpdateSpec(s)
    \/ \E v \in DriftValues : Drift(v)
    \/ OperatorRestart

RecoverySpec == RecoveryInit /\ [][RecoveryNext]_vars

\* ================================================================ claims
HasSentinel == contains(cr.finalizers, finalizer)

\* the reconcile that has just returned went past Client.Get
Fetched == last.path \notin {"none", "notfound", "geterr"}

\* C1: a reconcile of a CR that is not being deleted, carries the sentinel
\* and whose Sync succeeded calls exactly one of InstallRelease,
\* UpdateRelease, ReconcileRelease: InstallRelease iff not installed,
\* UpdateRelease iff installed and update required, ReconcileRelease iff
\* installed and no update required.
C1_ExactlyOneOperation ==
    (Fetched /\ ~last.deleted /\ last.hasFinalizer /\ last.path # "syncerr") =>
        /\ Len(last.calls) = 2
        /\ last.calls[1] = "Sync"
        /\ last.calls[2] \in {"InstallRelease", "UpdateRelease", "ReconcileRelease"}
        /\ (last.calls[2] = "InstallRelease") <=> ~last.isInstalled
        /\ (last.calls[2] = "UpdateRelease") <=> (last.isInstalled /\ last.isUpdateRequired)
        /\ (last.calls[2] = "ReconcileRelease") <=> (last.isInstalled /\ ~last.isUpdateRequired)

C1_Witness ==
    /\ Fetched /\ ~last.deleted /\ last.hasFinalizer
    /\ last.isInstalled /\ last.isUpdateRequired
    /\ last.calls = <<"Sync", "UpdateRelease">>
    /\ last.err = <<>>

\* C2: the sentinel leaves the finalizers only in a reconcile in which
\* UninstallRelease returned success or NotFound, and in the state right
\* after the removal the storage holds no history for the release name.
C2_SentinelRemovedOnlyAfterUninstall ==
    [][(cr.exists /\ HasSentinel /\ ~(cr'.exists /\ contains(cr'.finalizers, finalizer))) =>
          /\ last'.calls = <<"Sync", "UninstallRelease">>
          /\ last'.err = <<>>
          /\ last'.tcalls \in {<<>>, <<"UninstallRelease">>}
          /\ History(storage') = {}]_vars

C2_Witness ==
    /\ last.calls = <<"Sync", "UninstallRelease">>
    /\ last.tcalls = <<"UninstallRelease">>
    /\ last.wrote = "finalizers" /\ last.err = <<>>
    /\ ~HasSentinel
    /\ History(storage) = {}

\* C3: a reconcile that observes a CR without deletion timestamp and without
\* the sentinel only appends the sentinel and writes the CR: no manager call,
\* no Tiller call, storage, cluster resources, spec and status untouched; and
\* any reconcile that calls InstallRelease has observed the sentinel.
C3_FinalizerBeforeInstall ==
    [][/\ (Fetched' /\ ~last'.deleted /\ ~last'.hasFinalizer) =>
             /\ last'.calls = <<>> /\ last'.tcalls = <<>>
             /\ last'.wrote = "finalizers"
             /\ storage' = storage /\ live' = live
             /\ cr' \in {cr, [cr EXCEPT !.finalizers = Append(cr.finalizers, finalizer)]}
       /\ (\E i \in 1..Len(last'.calls) : last'.calls[i] = "InstallRelease") =>
             (last'.hasFinalizer /\ HasSentinel)]_vars

C3_Witness ==
    /\ last.path = "addfinalizer" /\ last.err = <<>>
    /\ HasSentinel /\ ~cr.deleted
    /\ storage = {} /\ cr.status = EmptyStatus

\* C4: after any sequence of reconciles the history of the release name holds
\* at most one DEPLOYED version, and exactly one when the last reconcile
\* installed, updated or repaired the release without error.
C4_AtMostOneDeployed ==
    /\ Cardinality(DeployedAll(storage)) <= 1
    /\ (last.path \in {"install", "update", "repair"} /\ last.err = <<>>) =>
          Cardinality(DeployedAll(storage)) = 1

\* C7 as claimed: every reconcile that observes the deletion timestamp ends
\* with the sentinel absent, UninstallRelease having run once or the history
\* having been empty.
C7_SentinelAbsentAfterDeletedReconcile ==
    (Fetched /\ last.deleted) =>
        /\ ~HasSentinel
        /\ last.tcalls \in {<<>>, <<"UninstallRelease">>}
        /\ (last.tcalls = <<>>) => History(storage) = {}

\* C7 amended: a reconcile that observes the deletion timestamp and the
\* sentinel and returns no error has purged the release with exactly one
\* Tiller uninstall, or found the history empty, and the sentinel is absent
\* (and the history empty) when it returns; a reconcile that returns an error
\* has written nothing, so the sentinel stays.
C7_SentinelAbsentAfterSuccessfulDeletion ==
    /\ (Fetched /\ last.deleted /\ ~last.hasFinalizer) => (~HasSentinel /\ last.tcalls = <<>>)
    /\ (Fetched /\ last.deleted /\ last.hasFinalizer) =>
           /\ last.err = <<>> =>
                 /\ ~HasSentinel
                 /\ last.calls = <<"Sync", "UninstallRelease">>
                 /\ last.tcalls \in {<<>>, <<"UninstallRelease">>}
                 /\ (last.tcalls = <<"UninstallRelease">>) <=> (last.returned # NilRelease)
                 /\ History(storage) = {}
           /\ last.err # <<>> => (cr.exists /\ cr.deleted /\ HasSentinel)

C7_Witness ==
    /\ Fetched /\ last.deleted /\ last.hasFinalizer /\ last.err = <<>>
    /\ last.tcalls = <<"UninstallRelease">>
    /\ cr.exists /\ cr.deleted /\ ~HasSentinel
    /\ cr.finalizers = <<OtherFinalizer>>

\* C8: whenever InstallRelease or UpdateRelease fails during a reconcile, the
\* status of the CR is phase Failed with reason ApplyFailed and the error as
\* message.
C8_FailedStatusWritten ==
    (last.path \in {"install", "update"} /\ last.returned = NilRelease) =>
        /\ cr.status.phase = PhaseFailed
        /\ cr.status.reason = ReasonApplyFailed

\* C5: with reconciles scheduled fairly and every call succeeding, a newly
\* created CR (no finalizer, no status) eventually has a DEPLOYED release in
\* the storage and a status that carries that release, with code DEPLOYED and
\* phase Applied.
NewCR ==
    /\ cr.exists /\ ~cr.deleted /\ ~HasSentinel
    /\ cr.status = EmptyStatus /\ storage = {}

InstalledAndApplied ==
    /\ cr.status.release \in DeployedAll(storage)
    /\ cr.status.release.code = Status_DEPLOYED
    /\ cr.status.phase = PhaseApplied
    /\ cr.status.reason = ReasonApplySuccessful

C5_NewCREventuallyApplied == NewCR ~> InstalledAndApplied

C5_Witness ==
    /\ InstalledAndApplied
    /\ last.calls = <<"Sync", "InstallRelease">> /\ last.err = <<>>
    /\ cr.status.release.version = 1
    /\ HasSentinel

\* C6: with reconciles scheduled fairly and every call succeeding, once a CR
\* with a deployed release carries the deletion timestamp, eventually the
\* history is empty with the sentinel removed, and eventually the CR is gone.
DeletionPending ==
    /\ cr.exists /\ cr.deleted /\ HasSentinel
    /\ DeployedAll(storage) # {}

C6_DeletedCREventuallyGone ==
    /\ DeletionPending ~> (History(storage) = {} /\ ~HasSentinel)
    /\ DeletionPending ~> ~cr.exists

C6_Witness ==
    /\ ~cr.exists
    /\ last.calls = <<"Sync", "UninstallRelease">>
    /\ last.tcalls = <<"UninstallRelease">> /\ last.err = <<>>
    /\ History(storage) = {} /\ live = Absent

\* C9 as stated: when the install fails and Tiller answers with a partial
\* release, installRelease issues a purge-uninstall and returns the original
\* install error, and no version of the history is DEPLOYED afterwards.
PartialInstallFailed(l) ==
    l.path = "install" /\ l.response # NilRelease /\ l.returned = NilRelease

C9_ReturnsOriginalInstallError ==
    PartialInstallFailed(last) =>
        /\ last.tcalls = <<"InstallRelease", "UninstallRelease">>
        /\ last.err = <<"install failed">>
        /\ DeployedAll(storage) = {}

\* C9 amended: when the install fails and Tiller answers with a partial
\* release, installRelease issues a purge-uninstall; it returns the original
\* install error when that uninstall succeeds, and otherwise a new error
\* made of the uninstall error and the install error.  In both cases no
\* version of the history is DEPLOYED and the CR is untouched, so the Sync of
\* the next reconcile reports "not installed" and, the CR not being deleted,
\* InstallRelease is called again.
C9_FailedInstallIsPurged ==
    [][/\ PartialInstallFailed(last') =>
             /\ last'.tcalls = <<"InstallRelease", "UninstallRelease">>
             /\ \/ last'.err = <<"install failed">> /\ History(storage') = {}
                \/ /\ Len(last'.err) = 3
                   /\ last'.err[1] = "failed to roll back failed installation"
                   /\ last'.err[2] \in {"release: not found", "uninstall failed"}
                   /\ last'.err[3] = "install failed"
             /\ DeployedAll(storage') = {}
             /\ cr' = cr
       /\ (PartialInstallFailed(last) /\ Fetched' /\ last'.path # "syncerr") =>
             /\ ~last'.isInstalled
             /\ ~last'.deleted => last'.calls = <<"Sync", "InstallRelease">>]_vars

C9_Witness ==
    /\ PartialInstallFailed(last)
    /\ last.response.code = Status_FAILED
    /\ last.err = <<"install failed">>
    /\ History(storage) = {}

\* C10: when the update fails and Tiller answers with a partial release,
\* updateRelease issues a forced rollback and returns an error that carries
\* the update error; after a successful rollback the DEPLOYED release has the
\* manifest that was deployed before the update.
PartialUpdateFailed ==
    last.path = "update" /\ last.response # NilRelease /\ last.returned = NilRelease

C10_FailedUpdateIsRolledBack ==
    PartialUpdateFailed =>
        /\ last.tcalls = <<"UpdateRelease", "RollbackRelease">>
        /\ contains(last.err, "update failed")
        /\ ~contains(last.err, "rollback failed") =>
              /\ DeployedAll(storage) # {}
              /\ \A r \in DeployedAll(storage) : r.manifest = last.deployedRelease.manifest

\* C11: at the end of every completed reconcile of a CR that is not deleted,
\* status.release is the release that is DEPLOYED in the storage and phase and
\* reason tell whether that reconcile succeeded (Applied / ApplySuccessful) or
\* failed (Failed / ApplyFailed).
CompletedApply == Fetched /\ ~last.deleted /\ last.path \in {"install", "update", "repair"}

C11_StatusDescribesOutcome ==
    CompletedApply =>
        /\ last.err = <<>> =>
              /\ cr.status.release \in DeployedAll(storage)
              /\ cr.status.phase = PhaseApplied
              /\ cr.status.reason = ReasonApplySuccessful
        /\ last.err # <<>> =>
              /\ cr.status.phase = PhaseFailed
              /\ cr.status.reason = ReasonApplyFailed

\* C12: when a successful reconcile directly follows a successful reconcile
\* (no edit of the spec in between), the Sync of the second one reports no
\* update required, neither InstallRelease nor UpdateRelease is called, and
\* the history has no more versions than before.
SuccessfulApply(l) ==
    l.path \in {"install", "update", "repair"} /\ ~l.deleted /\ l.err = <<>>

C12_UnchangedSpecNoUpdate ==
    [][(SuccessfulApply(last) /\ SuccessfulApply(last')) =>
          /\ ~last'.isUpdateRequired
          /\ last'.calls = <<"Sync", "ReconcileRelease">>
          /\ last'.tcalls = <<>>
          /\ Cardinality(History(storage')) <= Cardinality(History(storage))]_vars

MaxVersionOf(st) ==
    IF st = {} THEN 0 ELSE (CHOOSE r \in st : \A q \in st : q.version <= r.version).version

InstalledOrUpdated(l) == l.path \in {"install", "update"} /\ l.returned # NilRelease

C14_VersionGrows ==
    [][InstalledOrUpdated(last') =>
          /\ MaxVersionOf(storage') > MaxVersionOf(storage)
          /\ Cardinality(DeployedAll(storage')) = 1]_vars

\* ------------------------------------------------------------ release name
\* Strings are sequences of one-character strings.  A UUID is scaled down
\* from sixteen bytes in five groups to two bytes in two groups ("hh-hh");
\* parsing, encoding and lowering work as in the libraries.
HexLower == <<"0", "1", "2", "3", "4", "5", "6", "7", "8", "9", "a", "b", "c", "d", "e", "f">>

HexUpper == <<"0", "1", "2", "3", "4", "5", "6", "7", "8", "9", "A", "B", "C", "D", "E", "F">>

IsHex(c) == \E i \in 1..16 : HexLower[i] = c \/ HexUpper[i] = c

HexVal(c) == (CHOOSE i \in 1..16 : HexLower[i] = c \/ HexUpper[i] = c) - 1

\* uuid.Parse: the bytes of a well-formed UUID (hex digits of either case),
\* the nil UUID (no bytes) for anything else.
ParseUUID(uid) ==
    IF /\ Len(uid) = 5 /\ uid[3] = "-"
       /\ IsHex(uid[1]) /\ IsHex(uid[2]) /\ IsHex(uid[4]) /\ IsHex(uid[5])
    THEN <<16 * HexVal(uid[1]) + HexVal(uid[2]), 16 * HexVal(uid[4]) + HexVal(uid[5])>>
    ELSE <<>>

Base36Alphabet ==
    <<"0", "1", "2", "3", "4", "5", "6", "7", "8", "9", "A", "B", "C", "D", "E", "F", "G", "H",
      "I", "J", "K", "L", "M", "N", "O", "P", "Q", "R", "S", "T", "U", "V", "W", "X", "Y", "Z">>

Base36Lower ==
    <<"0", "1", "2", "3", "4", "5", "6", "7", "8", "9", "a", "b", "c", "d", "e", "f", "g", "h",
      "i", "j", "k", "l", "m", "n", "o", "p", "q", "r", "s", "t", "u", "v", "w", "x", "y", "z">>

RECURSIVE BytesValue(_)
\* big.Int.SetBytes: the bytes as a big-endian number
BytesValue(b) == IF b = <<>> THEN 0 ELSE 256 * BytesValue(SubSeq(b, 1, Len(b) - 1)) + b[Len(b)]

RECURSIVE Base36Digits(_)
Base36Digits(x) ==
    IF x = 0 THEN <<>> ELSE Append(Base36Digits(x \div 36), Base36Alphabet[(x % 36) + 1])

RECURSIVE LeadingZeros(_)
LeadingZeros(b) == IF b = <<>> \/ b[1] # 0 THEN <<>> ELSE <<"0">> \o LeadingZeros(Tail(b))

\* base36.EncodeBytes: one "0" per leading zero byte, then the digits
EncodeBytes(b) == LeadingZeros(b) \o Base36Digits(BytesValue(b))

ToLowerChar(c) ==
    IF \E i \in 1..36 : Base36Alphabet[i] = c
    THEN Base36Lower[CHOOSE i \in 1..36 : Base36Alphabet[i] = c]
    ELSE c

\* strings.ToLower
ToLower(str) == [i \in 1..Len(str) |-> ToLowerChar(str[i])]

\* strings.Replace(uid, "-", "", -1)
StripDashes(str) == SelectSeq(str, LAMBDA c : c # "-")

\* shortenUID: MarshalBinary of pborman/uuid answers the bytes of the UUID
\* and never an error; whatever the branch for an error assigns, the
\* assignment after it replaces.
shortenUID(uid) ==
    LET uidBytes == ParseUUID(uid)
    IN  ToLower(EncodeBytes(uidBytes))

getReleaseName(name, uid) == name \o <<"-">> \o shortenUID(uid)

\* Names and UIDs of CRs: well-formed UUIDs (one with a leading zero byte,
\* one in upper case) and UIDs that do not parse.
Names == {<<"t", "1">>, <<"t", "1", "-", "a">>, <<"a">>}

UIDs ==
    {<<"0", "0", "-", "0", "0">>, <<"0", "0", "-", "0", "1">>, <<"0", "1", "-", "0", "0">>,
     <<"0", "a", "-", "f", "f">>, <<"0", "A", "-", "F", "F">>, <<"f", "f", "-", "f", "f">>,
     <<"9", "c", "-", "4", "e">>,
     <<"0", "a", "f", "f">>, <<"0", "a", "-", "f">>, <<"0", "a", "-", "f", "g">>,
     <<"x", "-", "1">>, <<"x", "-", "2">>}

Instances == [name : Names, uid : UIDs]

\* The state while only functions are called: no CR, nothing stored.
PureInit ==
    /\ cr = Gone /\ storage = {} /\ live = Absent /\ last = NoLast
    /\ call = NoCall

\* NewManager computes the release name of a CR; two CRs are looked at.
NameCall ==
    /\ \E a \in Instances, b \in Instances :
          call' = [op |-> "getReleaseName", a |-> a, b |-> b,
                   shortA |-> shortenUID(a.uid), shortB |-> shortenUID(b.uid),
                   nameA |-> getReleaseName(a.name, a.uid),
                   nameB |-> getReleaseName(b.name, b.uid)]
    /\ UNCHANGED <<cr, storage, live, last>>

NameSpec == PureInit /\ [][NameCall]_vars

\* C15: the release name is a function of (name, uid), and two CRs that
\* differ in name or in uid never get the same release name.
C15_ReleaseNameUnique ==
    (call.op = "getReleaseName") =>
        /\ call.a = call.b => call.nameA = call.nameB
        /\ call.a # call.b => call.nameA # call.nameB

\* C16: for a UID that parses as a UUID the short UID is the lower-case base36
\* numeral of its bytes (one "0" for each leading zero byte in front), for a
\* UID that does not parse it is the UID without its dashes, and the release
\* name is the name, "-" and the short UID.
RECURSIVE Base36Value(_)
Base36Value(str) ==
    IF str = <<>> THEN 0
    ELSE 36 * Base36Value(SubSeq(str, 1, Len(str) - 1))
         + (CHOOSE i \in 1..36 : Base36Lower[i] = str[Len(str)]) - 1

C16_ShortUID ==
    (call.op = "getReleaseName") =>
        /\ ParseUUID(call.a.uid) # <<>> =>
              /\ \A i \in 1..Len(call.shortA) : \E j \in 1..36 : Base36Lower[j] = call.shortA[i]
              /\ Base36Value(call.shortA) = BytesValue(ParseUUID(call.a.uid))
              /\ SubSeq(call.shortA, 1, Len(LeadingZeros(ParseUUID(call.a.uid))))
                    = LeadingZeros(ParseUUID(call.a.uid))
        /\ ParseUUID(call.a.uid) = <<>> => call.shortA = StripDashes(call.a.uid)
        /\ call.nameA = call.a.name \o <<"-">> \o call.shortA

\* ------------------------------------------- owner-propagating renderer
\* A rendered file is a sequence of YAML documents.  A document is a mapping
\* (its ownerReferences are "absent" or a list of references), the empty
\* mapping, or text that does not parse as a mapping.
ControllerRef == "controllerRef(cr)"

OtherRef == "ownerRef(chart)"

RefLists == {<<ControllerRef>>, <<ControllerRef, OtherRef>>}

EmptyDoc == [kind |-> "empty"]

\* Text that is no mapping: FromYaml gives a map with the one key "Error",
\* whose value is the message of yaml.Unmarshal.
BadDoc == [kind |-> "bad", Error |-> "yaml: did not find expected key"]

Mapping(name, owners) == [kind |-> "mapping", name |-> name, owners |-> owners]

Contents ==
    {<<>>, <<EmptyDoc>>, <<BadDoc>>,
     <<Mapping("deployment", "absent")>>,
     <<Mapping("deployment", <<OtherRef>>)>>,
     <<Mapping("deployment", "absent"), Mapping("service", "absent")>>}

FileNames ==
    {[stem |-> "templates/deployment", suffix |-> ".yaml"],
     [stem |-> "templates/configmap", suffix |-> ".yaml"],
     [stem |-> "templates/service", suffix |-> ".yml"],
     [stem |-> "templates/NOTES", suffix |-> ".txt"]}

\* strings.HasSuffix(fileName, ".yaml")
HasYamlSuffix(fileName) == fileName.suffix = ".yaml"

\* chartutil.FromYaml: yaml.Unmarshal into a map reads the first document of
\* the text; text that is no mapping gives a map with the key "Error".
FromYaml(fileContents) ==
    IF fileContents = <<>> THEN EmptyDoc ELSE fileContents[1]

\* unstructured.SetOwnerReferences
SetOwnerReferences(doc, refs) == [doc EXCEPT !.owners = refs]

\* chartutil.ToYaml
ToYaml(doc) == <<doc>>

\* fmt.Errorf("error parsing rendered template to add ownerrefs: %v", errors):
\* the text of an error is the sequence of its parts.
ParseError(parsed) ==
    <<"error parsing rendered template to add ownerrefs: ", parsed.Error>>

\* addOwnerRefs that keeps the ownerReferences a template rendered.
addOwnerRefs_KeepExisting(fileContents, refs) ==
    LET parsed == FromYaml(fileContents)
    IN  IF parsed = BadDoc THEN [out |-> <<>>, err |-> ParseError(parsed)]
        ELSE IF parsed = EmptyDoc THEN [out |-> <<>>, err |-> <<>>]
        ELSE IF parsed.owners # "absent" THEN [out |-> ToYaml(parsed), err |-> <<>>]
        ELSE [out |-> ToYaml(SetOwnerReferences(parsed, refs)), err |-> <<>>]

\* OwnerRefEngine.addOwnerRefs
addOwnerRefs(fileContents, refs) ==
    LET parsed == FromYaml(fileContents)
    IN  IF parsed = BadDoc THEN [out |-> <<>>, err |-> ParseError(parsed)]
        ELSE IF parsed = EmptyDoc THEN [out |-> <<>>, err |-> <<>>]
        ELSE [out |-> ToYaml(SetOwnerReferences(parsed, refs)), err |-> <<>>]

\* OwnerRefEngine.Render, given what the wrapped engine rendered: a file
\* without the suffix ".yaml" is skipped, the first error ends the rendering
\* and is returned as addOwnerRefs made it (the files are visited in the
\* order of a Go map; every file that fails gives the same error text),
\* a file that comes out empty is skipped.
OwnerRefRender(rendered, refs) ==
    LET yamls == {n \in DOMAIN rendered : HasYamlSuffix(n)}
        failed == {n \in yamls : addOwnerRefs(rendered[n], refs).err # <<>>}
        kept == {n \in yamls : addOwnerRefs(rendered[n], refs).out # <<>>}
    IN  IF failed # {}
        THEN [out |-> << >>,
              err |-> addOwnerRefs(rendered[CHOOSE n \in failed : TRUE], refs).err]
        ELSE [out |-> [n \in kept |-> addOwnerRefs(rendered[n], refs).out], err |-> <<>>]

RenderCall ==
    /\ \E rendered \in [FileNames -> Contents], refs \in RefLists :
          call' = [op |-> "Render", rendered |-> rendered, refs |-> refs,
                   out |-> OwnerRefRender(rendered, refs).out,
                   err |-> OwnerRefRender(rendered, refs).err]
    /\ UNCHANGED <<cr, storage, live, last>>

RenderSpec == PureInit /\ [][RenderCall]_vars

\* C17: in the output of a Render that succeeded, every file whose name ends
\* in ".yaml" is non-empty and each of its documents has exactly the
\* configured owner references, whatever the template rendered there.
C17_OwnerRefsSet ==
    (call.op = "Render" /\ call.err = <<>>) =>
        \A n \in DOMAIN call.out :
           HasYamlSuffix(n) =>
              /\ call.out[n] # <<>>
              /\ \A i \in 1..Len(call.out[n]) :
                    /\ call.out[n][i].kind = "mapping"
                    /\ call.out[n][i].owners = call.refs

C17_Witness ==
    /\ call.op = "Render" /\ call.err = <<>>
    /\ \E n \in DOMAIN call.out :
          /\ HasYamlSuffix(n)
          /\ call.rendered[n][1].owners = <<OtherRef>>
          /\ call.out[n][1].owners = call.refs

\* C18: every file the wrapped engine rendered whose name does not end in
\* ".yaml" is in the output of a Render that succeeded, under the same name
\* and with the same content.
C18_NonYamlPassThrough ==
    (call.op = "Render" /\ call.err = <<>>) =>
        \A n \in DOMAIN call.rendered :
           ~HasYamlSuffix(n) =>
              /\ n \in DOMAIN call.out
              /\ call.out[n] = call.rendered[n]

\* ------------------------------------------------------ watch configuration
HelmChartWatchesEnvVar == "HELM_CHART_WATCHES"

defaultHelmChartWatchesFile == "/opt/helm/watches.yaml"

CustomWatchesFile == "/etc/custom/watches.yaml"

\* os.LookupEnv(HELM_CHART_WATCHES): not set, set to "", set to a path
Unset == [ok |-> FALSE, value |-> ""]

WatchesVarValues ==
    {Unset, [ok |-> TRUE, value |-> ""], [ok |-> TRUE, value |-> CustomWatchesFile]}

\* os.Stat of the default file: nil, "no such file", another error
StatOutcomes == {"ok", "notExist", "denied"}

\* chartutil.IsChartDir succeeds for "chart" only.
ChartDirs == {"/charts/chart"}

Watch(g, v, k, c) == [group |-> g, version |-> v, kind |-> k, chart |-> c]

WatchEntries ==
    {Watch("example.com", "v1", "App", "/charts/chart"),
     Watch("", "v1", "App", "/charts/chart"),
     Watch("example.com", "v1", "Db", "/charts/chart"),
     Watch("example.com", "", "App", "/charts/chart"),
     Watch("example.com", "v1", "", "/charts/chart"),
     Watch("example.com", "v1", "App", "/charts/none")}

SeqsUpTo(S, n) == UNION {[1..k -> S] : k \in 0..n}

\* What is found at a path: nothing readable, text that is no list of
\* watches, or a list of watches.
Unreadable == [kind |-> "unreadable", watches |-> <<>>]

Garbage == [kind |-> "garbage", watches |-> <<>>]

WatchesFile(ws) == [kind |-> "watches", watches |-> ws]

FileContents == {Unreadable, Garbage} \cup {WatchesFile(ws) : ws \in SeqsUpTo(WatchEntries, MaxWatches)}

SmallFiles ==
    {Unreadable, WatchesFile(<<>>),
     WatchesFile(<<Watch("example.com", "v1", "App", "/charts/chart")>>),
     WatchesFile(<<Watch("example.com", "v1", "Db", "/charts/chart")>>)}

GVK(g, v, k) == [group |-> g, version |-> v, kind |-> k]

GVKOf(w) == GVK(w.group, w.version, w.kind)

\* verifyGVK
verifyGVK(gvk) ==
    IF gvk.version = "" THEN <<"version must not be empty">>
    ELSE IF gvk.kind = "" THEN <<"kind must not be empty">>
    ELSE <<>>

\* chartutil.IsChartDir
IsChartDir(dir) == dir \in ChartDirs

NilManagers == [nil |-> TRUE, m |-> <<>>]

Failed(err) == [managers |-> NilManagers, err |-> err]

RECURSIVE AddWatches(_, _)
\* the loop of NewManagersFromFile over the watches that are left
AddWatches(m, ws) ==
    IF ws = <<>> THEN [managers |-> [nil |-> FALSE, m |-> m], err |-> <<>>]
    ELSE LET w == Head(ws)
             gvk == GVKOf(w)
         IN  IF verifyGVK(gvk) # <<>> THEN Failed(<<"invalid GVK">> \o verifyGVK(gvk))
             ELSE IF ~IsChartDir(w.chart) THEN Failed(<<"invalid chart directory">>)
             ELSE IF gvk \in DOMAIN m THEN Failed(<<"duplicate GVK">>)
             ELSE AddWatches([k \in DOMAIN m \cup {gvk} |-> IF k = gvk THEN w.chart ELSE m[k]],
                             Tail(ws))

\* NewManagersFromFile that lets a later watch replace an earlier one.
NewManagersFromFile_LastWins(content) ==
    IF content.kind = "unreadable" THEN Failed(<<"failed to read config file">>)
    ELSE IF content.kind = "garbage" THEN Failed(<<"failed to unmarshal config">>)
    ELSE IF \E i \in 1..Len(content.watches) : verifyGVK(GVKOf(content.watches[i])) # <<>>
    THEN Failed(<<"invalid GVK">>)
    ELSE IF \E i \in 1..Len(content.watches) : ~IsChartDir(content.watches[i].chart)
    THEN Failed(<<"invalid chart directory">>)
    ELSE [managers |->
             [nil |-> FALSE,
              m |-> [k \in {GVKOf(content.watches[i]) : i \in 1..Len(content.watches)} |->
                       content.watches[CHOOSE i \in 1..Len(content.watches) :
                                          /\ GVKOf(content.watches[i]) = k
                                          /\ \A j \in (i + 1)..Len(content.watches) :
                                                GVKOf(content.watches[j]) # k].chart]],
          err |-> <<>>]

\* NewManagersFromFile, given what is at the path
NewManagersFromFile(content) ==
    IF content.kind = "unreadable" THEN Failed(<<"failed to read config file">>)
    ELSE IF content.kind = "garbage" THEN Failed(<<"failed to unmarshal config">>)
    ELSE AddWatches(<<>>, content.watches)

\* getWatchesFile that passes over a variable set to the empty string.
getWatchesFile_SkipEmpty(var, stat) ==
    IF var.ok /\ var.value # "" THEN [file |-> var.value, ok |-> TRUE]
    ELSE IF stat = "ok" THEN [file |-> defaultHelmChartWatchesFile, ok |-> TRUE]
    ELSE [file |-> "", ok |-> FALSE]

\* getWatchesFile
getWatchesFile(var, stat) ==
    IF var.ok THEN [file |-> var.value, ok |-> TRUE]
    ELSE IF stat = "ok" THEN [file |-> defaultHelmChartWatchesFile, ok |-> TRUE]
    ELSE [file |-> "", ok |-> FALSE]

\* API_VERSION as the segments between its slashes; schema.ParseGroupVersion
ApiVersions == {<<>>, <<"v1">>, <<"example.com", "v1">>, <<"a", "b", "c">>}

ParseGroupVersion(apiVersion) ==
    CASE Len(apiVersion) = 0 -> [group |-> "", version |-> "", err |-> <<>>]
      [] Len(apiVersion) = 1 -> [group |-> "", version |-> apiVersion[1], err |-> <<>>]
      [] Len(apiVersion) = 2 -> [group |-> apiVersion[1], version |-> apiVersion[2], err |-> <<>>]
      [] OTHER -> [group |-> "", version |-> "", err |-> <<"unexpected GroupVersion string">>]

EnvEntries == [apiVersion : ApiVersions, kind : {"", "App"}, chart : {"/charts/chart", "/charts/none"}]

\* newManagerFromEnv
newManagerFromEnv(e) ==
    LET gv == ParseGroupVersion(e.apiVersion)
        gvk == GVK(gv.group, gv.version, e.kind)
    IN  IF gv.err # <<>> THEN Failed(gv.err)
        ELSE IF verifyGVK(gvk) # <<>> THEN Failed(<<"invalid GVK">> \o verifyGVK(gvk))
        ELSE IF ~IsChartDir(e.chart) THEN Failed(<<"invalid chart directory">>)
        ELSE [managers |-> [nil |-> FALSE, m |-> [k \in {gvk} |-> e.chart]], err |-> <<>>]

\* The file system as NewManagersFromFile sees it.
ReadPath(fs, path) ==
    IF path \in DOMAIN fs THEN fs[path] ELSE Unreadable

\* NewManagersFromEnv; `source` tells which configuration was read.
NewManagersFromEnv(var, stat, fs, e) ==
    LET wf == getWatchesFile(var, stat)
    IN  IF wf.ok
        THEN [source |-> <<"file", wf.file>>, result |-> NewManagersFromFile(ReadPath(fs, wf.file))]
        ELSE [source |-> <<"env">>, result |-> newManagerFromEnv(e)]

FromEnvCall ==
    /\ \E var \in WatchesVarValues, stat \in StatOutcomes, e \in EnvEntries,
          fs \in [{CustomWatchesFile, defaultHelmChartWatchesFile} -> SmallFiles] :
          /\ (stat # "ok") => (fs[defaultHelmChartWatchesFile] = Unreadable)
          /\ call' = [op |-> "NewManagersFromEnv", var |-> var, stat |-> stat, fs |-> fs,
                      env |-> e,
                      source |-> NewManagersFromEnv(var, stat, fs, e).source,
                      managers |-> NewManagersFromEnv(var, stat, fs, e).result.managers,
                      err |-> NewManagersFromEnv(var, stat, fs, e).result.err]
    /\ UNCHANGED <<cr, storage, live, last>>

FromFileCall ==
    /\ \E content \in FileContents :
          call' = [op |-> "NewManagersFromFile", content |-> content,
                   managers |-> NewManagersFromFile(content).managers,
                   err |-> NewManagersFromFile(content).err]
    /\ UNCHANGED <<cr, storage, live, last>>

WatchesNext == FromEnvCall \/ FromFileCall

WatchesSpec == PureInit /\ [][WatchesNext]_vars

\* C19: the watch configuration is the file named by HELM_CHART_WATCHES
\* whenever the variable is set, also to the empty string, and a failure to
\* read that file is the result (no other source is tried); with the variable
\* not set it is the default file when os.Stat finds it, and otherwise the one
\* entry built from API_VERSION, KIND and HELM_CHART.
C19_WatchSource ==
    (call.op = "NewManagersFromEnv") =>
        LET fromFile(path) == NewManagersFromFile(ReadPath(call.fs, path))
        IN  /\ call.var.ok =>
                  /\ call.source = <<"file", call.var.value>>
                  /\ call.managers = fromFile(call.var.value).managers
                  /\ call.err = fromFile(call.var.value).err
                  /\ ReadPath(call.fs, call.var.value) = Unreadable =>
                        (call.err = <<"failed to read config file">> /\ call.managers.nil)
            /\ (~call.var.ok /\ call.stat = "ok") =>
                  /\ call.source = <<"file", defaultHelmChartWatchesFile>>
                  /\ call.managers = fromFile(defaultHelmChartWatchesFile).managers
                  /\ call.err = fromFile(defaultHelmChartWatchesFile).err
            /\ (~call.var.ok /\ call.stat # "ok") =>
                  /\ call.source = <<"env">>
                  /\ call.err = <<>> =>
                        /\ Cardinality(DOMAIN call.managers.m) = 1
                        /\ \A k \in DOMAIN call.managers.m :
                              /\ k.kind = call.env.kind
                              /\ k.version = call.env.apiVersion[Len(call.env.apiVersion)]
                              /\ call.managers.m[k] = call.env.chart

C19_Witness ==
    /\ call.op = "NewManagersFromEnv"
    /\ call.var.ok /\ call.var.value = ""
    /\ call.stat = "ok" /\ call.fs[defaultHelmChartWatchesFile].kind = "watches"
    /\ call.source = <<"file", "">>
    /\ call.err = <<"failed to read config file">> /\ call.managers.nil
    /\ newManagerFromEnv(call.env).err = <<>>

\* C20: loading a list of watches fails with no map when an entry has an
\* empty version or kind, a chart path that is no chart directory, or the
\* (group, version, kind) of an earlier entry; otherwise the map has one
\* entry per watch, keyed by its (group, version, kind) and holding its
\* chart, an empty group included.
BadWatch(ws, i) ==
    \/ ws[i].version = "" \/ ws[i].kind = ""
    \/ ~IsChartDir(ws[i].chart)
    \/ \E j \in 1..(i - 1) : GVKOf(ws[j]) = GVKOf(ws[i])

C20_WatchesFileValidated ==
    (call.op = "NewManagersFromFile" /\ call.content.kind = "watches") =>
        LET ws == call.content.watches
        IN  IF \E i \in 1..Len(ws) : BadWatch(ws, i)
            THEN call.err # <<>> /\ call.managers.nil
            ELSE /\ call.err = <<>> /\ ~call.managers.nil
                 /\ DOMAIN call.managers.m = {GVKOf(ws[i]) : i \in 1..Len(ws)}
                 /\ Cardinality(DOMAIN call.managers.m) = Len(ws)
                 /\ \A i \in 1..Len(ws) : call.managers.m[GVKOf(ws[i])] = ws[i].chart

C20_Witness ==
    /\ call.op = "NewManagersFromFile" /\ call.content.kind = "watches"
    /\ Len(call.content.watches) = 2
    /\ call.err = <<>> /\ ~call.managers.nil
    /\ Cardinality(DOMAIN call.managers.m) = 2
    /\ \E k \in DOMAIN call.managers.m : k.group = ""

\* C21: a reconcile whose Client.Get answers NotFound returns success with no
\* requeue, calls neither Sync nor any other operation of the release
\* manager, makes no Tiller or kube call and writes nothing: CR, storage and
\* cluster resources are as before.
C21_NotFoundIsNoOp ==
    [][(~cr.exists /\ last'.path # "none") =>
          /\ last'.err = <<>> /\ ~last'.requeue
          /\ last'.calls = <<>> /\ last'.tcalls = <<>> /\ last'.kcalls = <<>>
          /\ last'.wrote = "none"
          /\ cr' = cr /\ storage' = storage /\ live' = live]_vars

C21_Witness ==
    /\ ~cr.exists /\ last.path = "notfound"
    /\ last.err = <<>> /\ ~last.requeue

\* C22: when status.release is set and the storage has no record of its
\* version (lost history), a Sync that succeeds has put it back before it
\* read the history: the reconcile sees the release as installed, and for a
\* CR that is not being deleted it calls UpdateRelease when the dry-run
\* manifest differs from the deployed one and ReconcileRelease when it does
\* not, never InstallRelease.
LostHistory ==
    /\ cr.exists /\ cr.status.release # NilRelease
    /\ ~Exists(storage, cr.status.release.version)

C22_LostHistoryRecovered ==
    [][(LostHistory /\ Fetched' /\ last'.path \notin {"addfinalizer", "syncerr"}) =>
          /\ last'.recreated
          /\ last'.isInstalled
          /\ last'.deployedRelease.code = Status_DEPLOYED
          /\ ~last'.deleted =>
                /\ last'.calls \in {<<"Sync", "UpdateRelease">>, <<"Sync", "ReconcileRelease">>}
                /\ (last'.calls[2] = "UpdateRelease") <=>
                      (last'.deployedRelease.manifest # Render(cr.spec))
          /\ last'.path = "repair" => cr.status.release \in storage']_vars

C22_Witness ==
    /\ last.recreated /\ last.path = "repair" /\ last.err = <<>>
    /\ storage = {cr.status.release}
    /\ last.deployedRelease = cr.status.release

\* ------------------------------------------- two CRs on the shared storage
\* The storage backend of main() is shared by the Managers of all CRs; its
\* records carry the release name.  Two CRs of two watched kinds are
\* reconciled by the controllers of their kinds, which run side by side; every
\* call on the storage is one step.
ConcCRs == {1, 2}

\* The UIDs of the two CRs (both are named "a").
ConcUIDs ==
    {<<<<"0", "0", "-", "0", "1">>, <<"0", "1", "-", "0", "0">>>>,
     <<<<"0", "0", "-", "0", "1">>, <<"x", "-", "1">>>>,
     <<<<"x", "-", "1">>, <<"x", "-", "2">>>>}

NamedRelease(name, rel) == [name |-> name, rel |-> rel]

\* storage.History(name)
HistoryOf(be, name) == {x.rel : x \in {y \in be : y.name = name}}

\* the storage with the history of `name` replaced
PutHistory(be, name, st) ==
    {x \in be : x.name # name} \cup {NamedRelease(name, r) : r \in st}

\* manager.releaseName of the Manager built for a CR
ReleaseNameOf(c) == getReleaseName(c.name, c.uid)

\* The release every installed CR of the initial state was installed with.
FirstRelease ==
    [version |-> 1, code |-> Status_DEPLOYED, manifest |-> Render([replicaCount |-> 2])]

\* What a CR can start as: new, installed, installed with the storage lost.
ConcStarts == {"new", "installed", "lost"}

ConcCR(uid, spec, start) ==
    [name |-> <<"a">>, uid |-> uid, spec |-> spec,
     status |-> IF start = "new" THEN EmptyStatus
                ELSE SetPhase(SetRelease(EmptyStatus, FirstRelease), PhaseApplied,
                              ReasonApplySuccessful, NotesOf(FirstRelease)),
     statusName |-> IF start = "new" THEN <<>> ELSE getReleaseName(<<"a">>, uid)]

IdleManager ==
    [pc |-> "start", releases |-> {}, deployedRelease |-> NilRelease, keys |-> {},
     err |-> <<>>]

ConcInit ==
    /\ cr = Gone /\ storage = {} /\ live = Absent /\ last = NoLast
    /\ \E u \in ConcUIDs, s1 \in Specs, s2 \in Specs, b1 \in ConcStarts, b2 \in ConcStarts :
          LET crs == <<ConcCR(u[1], s1, b1), ConcCR(u[2], s2, b2)>>
              be == {NamedRelease(ReleaseNameOf(crs[c]), FirstRelease) :
                         c \in {d \in ConcCRs : <<b1, b2>>[d] = "installed"}}
          IN  call = [op |-> "concurrent", crs |-> crs, be |-> be, crs0 |-> crs, be0 |-> be,
                      m |-> <<IdleManager, IdleManager>>]

ConcStep(c, pc, be, mc, crc) ==
    /\ call.op = "concurrent" /\ call.m[c].pc = pc
    /\ \A x \in be : x.rel.version <= MaxVersion
    /\ call' = [call EXCEPT !.be = be, !.m[c] = mc, !.crs[c] = crc]
    /\ UNCHANGED <<cr, storage, live, last>>

\* Sync, line 554: syncReleaseStatus, keyed by the name in status.release
ConcSyncStatus(c) ==
    LET o == call.crs[c]
        mc == call.m[c]
        key == o.statusName
    IN  IF o.status.release = NilRelease
        THEN ConcStep(c, "start", call.be, [mc EXCEPT !.pc = "history"], o)
        ELSE ConcStep(c, "start",
                      PutHistory(call.be, key, syncReleaseStatus(HistoryOf(call.be, key), o.status)),
                      [mc EXCEPT !.pc = "history", !.keys = @ \cup {key}], o)

\* Sync, line 559: storageBackend.History(m.releaseName)
ConcHistory(c) ==
    LET o == call.crs[c]
        mc == call.m[c]
        key == ReleaseNameOf(o)
    IN  ConcStep(c, "history", call.be,
                 [mc EXCEPT !.pc = "cleanup", !.releases = HistoryOf(call.be, key),
                            !.keys = @ \cup {key}], o)

\* Sync, lines 567-574: Delete(rel.GetName(), rel.GetVersion()) of the stale
\* releases that History returned
ConcCleanup(c) ==
    LET o == call.crs[c]
        mc == call.m[c]
        key == ReleaseNameOf(o)
        stale == {r.version : r \in {q \in mc.releases : q.code # Status_DEPLOYED}}
    IN  ConcStep(c, "cleanup",
                 {x \in call.be : ~(x.name = key /\ x.rel.version \in stale)},
                 [mc EXCEPT !.pc = "deployed"], o)

\* Sync, line 585: getDeployedRelease
ConcDeployed(c) ==
    LET o == call.crs[c]
        mc == call.m[c]
        key == ReleaseNameOf(o)
    IN  \E dep \in DeployedChoices(HistoryOf(call.be, key)) :
           ConcStep(c, "deployed", call.be,
                    [mc EXCEPT !.pc = "dispatch", !.deployedRelease = dep,
                               !.keys = @ \cup {key}], o)

\* Reconcile, lines 115-152: install, update or drift repair, every call
\* succeeding unless the storage refuses it; the status is written after a
\* successful install or update.
ConcDispatch(c) ==
    LET o == call.crs[c]
        mc == call.m[c]
        key == ReleaseNameOf(o)
        st == HistoryOf(call.be, key)
        ins == installRelease(st, Absent, o.spec, "ok", TRUE)
        done(r) == [mc EXCEPT !.pc = "done", !.err = r.err]
        wrote(r) ==
            IF r.err # <<>> THEN o
            ELSE [o EXCEPT !.statusName = key,
                           !.status = SetPhase(SetRelease(o.status, r.rel), PhaseApplied,
                                               ReasonApplySuccessful, NotesOf(r.rel))]
    IN  IF mc.deployedRelease = NilRelease
        THEN ConcStep(c, "dispatch", PutHistory(call.be, key, ins.storage), done(ins), wrote(ins))
        ELSE IF mc.deployedRelease.manifest # Render(o.spec)
        THEN \E cur \in DeployedChoices(st) :
                LET upd == updateRelease(st, Absent, o.spec, cur, "ok", TRUE)
                IN  ConcStep(c, "dispatch", PutHistory(call.be, key, upd.storage), done(upd),
                             wrote(upd))
        ELSE ConcStep(c, "dispatch", call.be, [mc EXCEPT !.pc = "done"], o)

ConcNext ==
    \E c \in ConcCRs :
       \/ ConcSyncStatus(c)
       \/ ConcHistory(c)
       \/ ConcCleanup(c)
       \/ ConcDeployed(c)
       \/ ConcDispatch(c)

ConcSpec == ConcInit /\ [][ConcNext]_vars

\* The storages a whole reconcile of CR `o`, run alone on the storage `be`
\* with every call succeeding, can leave behind.
SerialReconcile(be, o) ==
    LET key == ReleaseNameOf(o)
        be1 == IF o.status.release = NilRelease THEN be
               ELSE PutHistory(be, o.statusName,
                               syncReleaseStatus(HistoryOf(be, o.statusName), o.status))
        st2 == DeleteStale(HistoryOf(be1, key))
        after(dep) ==
            IF dep = NilRelease THEN installRelease(st2, Absent, o.spec, "ok", TRUE).storage
            ELSE IF dep.manifest # Render(o.spec)
            THEN updateRelease(st2, Absent, o.spec, dep, "ok", TRUE).storage
            ELSE st2
    IN  {PutHistory(be1, key, after(dep)) : dep \in DeployedChoices(st2)}

\* ... of the two CRs of the initial state, one after the other.  The second
\* reconcile reads the CR as the first one left it: a reconcile writes its
\* own CR only.
SerialOutcomes ==
    UNION {UNION {SerialReconcile(b, call.crs0[3 - c]) : b \in SerialReconcile(call.be0, call.crs0[c])} :
              c \in ConcCRs}

\* C23: every call a Manager makes on the shared storage is keyed by the
\* release name of its CR; a step of the reconcile of one CR leaves the
\* history of the other CR as it is; and when both reconciles are done the
\* storage is one that the two reconciles, run one after the other, leave.
C23_ReconcilesIndependent ==
    [][(call.op = "concurrent" /\ call'.op = "concurrent") =>
          /\ \A c \in ConcCRs : call'.m[c].keys \subseteq {ReleaseNameOf(call'.crs[c])}
          /\ \A c \in ConcCRs, d \in ConcCRs :
                (c # d /\ call'.m[c] # call.m[c]) =>
                    HistoryOf(call'.be, ReleaseNameOf(call.crs[d])) =
                        HistoryOf(call.be, ReleaseNameOf(call.crs[d]))
          /\ (\A c \in ConcCRs : call'.m[c].pc = "done") => call'.be \in SerialOutcomes]_vars

\* --------------------------------------------- drift repair, field by field
\* A managed resource (the StatefulSet of the e2e test) is a record of the
\* fields that matter; the expected object of the manifest sets some of them.
ObjectFields == {"replicas", "updateStrategy", "podManagementPolicy"}

FieldValues ==
    [replicas |-> {1, 2, 3}, updateStrategy |-> {"OnDelete", "RollingUpdate"},
     podManagementPolicy |-> {"OrderedReady", "Parallel"}]

\* what the API server fills in for a field the created object leaves out
FieldDefaults ==
    [replicas |-> 1, updateStrategy |-> "OnDelete", podManagementPolicy |-> "OrderedReady"]

NoObject == [kind |-> "none"]

\* The expected objects: replicas from the chart's values, the other fields
\* set by the chart or left out.
ExpectedObjects ==
    {[replicas |-> 2], [replicas |-> 3],
     [replicas |-> 2, updateStrategy |-> "OnDelete"],
     [replicas |-> 3, updateStrategy |-> "RollingUpdate"],
     [replicas |-> 2, podManagementPolicy |-> "Parallel"],
     [replicas |-> 3, updateStrategy |-> "OnDelete", podManagementPolicy |-> "OrderedReady"]}

\* helper.Create: the object of the manifest, defaulted
HelperCreate(expected) ==
    [f \in ObjectFields |-> IF f \in DOMAIN expected THEN expected[f] ELSE FieldDefaults[f]]

\* a patch applied as a replacement of the whole object
MergePatch_Replace(obj, patch) == HelperCreate(patch)

\* helper.Patch with MergePatchType: the fields of the patch replace those of
\* the object, the others stay.
MergePatch(obj, patch) ==
    [f \in ObjectFields |-> IF f \in DOMAIN patch THEN patch[f] ELSE obj[f]]

\* The callback of expectedInfos.Visit in reconcileRelease: create; on
\* "already exists" merge-patch with the expected object.  `ok` is the outcome
\* of the call that decides.
VisitExpected(obj, expected, ok) ==
    IF obj = NoObject
    THEN IF ok THEN [obj |-> HelperCreate(expected), err |-> <<>>, kcalls |-> <<"Create">>]
         ELSE [obj |-> obj, err |-> <<"create error">>, kcalls |-> <<"Create">>]
    ELSE IF ok THEN [obj |-> MergePatch(obj, expected), err |-> <<>>,
                     kcalls |-> <<"Create", "Patch">>]
         ELSE [obj |-> obj, err |-> <<"patch error">>, kcalls |-> <<"Create", "Patch">>]

\* The release is installed: the resource is the created expected object.
RepairInit ==
    /\ cr = Gone /\ storage = {} /\ live = Absent /\ last = NoLast
    /\ \E e \in ExpectedObjects :
          call = [op |-> "install", expected |-> e, obj |-> HelperCreate(e), err |-> <<>>,
                  kcalls |-> <<>>]

\* kubectl patch: somebody sets one field of the resource
ExternalPatch(f, v) ==
    /\ call.op \in {"install", "kubectl", "reconcileRelease"}
    /\ call.obj # NoObject /\ call.obj[f] # v
    /\ call' = [call EXCEPT !.op = "kubectl", !.obj = [call.obj EXCEPT ![f] = v],
                            !.err = <<>>, !.kcalls = <<>>]
    /\ UNCHANGED <<cr, storage, live, last>>

\* kubectl delete: somebody deletes the resource
ExternalDelete ==
    /\ call.op \in {"install", "kubectl", "reconcileRelease"}
    /\ call.obj # NoObject
    /\ call' = [call EXCEPT !.op = "kubectl", !.obj = NoObject, !.err = <<>>, !.kcalls = <<>>]
    /\ UNCHANGED <<cr, storage, live, last>>

\* A reconcile with the spec unchanged: ReconcileRelease with the manifest of
\* the deployed release.
RepairCall(ok) ==
    /\ call.op \in {"install", "kubectl", "reconcileRelease"}
    /\ LET r == VisitExpected(call.obj, call.expected, ok)
       IN  call' = [call EXCEPT !.op = "reconcileRelease", !.obj = r.obj, !.err = r.err,
                                !.kcalls = r.kcalls]
    /\ UNCHANGED <<cr, storage, live, last>>

RepairNext ==
    \/ \E f \in ObjectFields : \E v \in FieldValues[f] : ExternalPatch(f, v)
    \/ ExternalDelete
    \/ \E ok \in BOOLEAN : RepairCall(ok)

RepairSpec == RepairInit /\ [][RepairNext]_vars

C25_DeletedOnlyUninstalls ==
    (Fetched /\ last.deleted) =>
        /\ last.calls \in {<<"Sync">>, <<"Sync", "UninstallRelease">>}
        /\ last.tcalls \in {<<>>, <<"UninstallRelease">>}
        /\ last.kcalls = <<>>
        /\ last.wrote \in {"none", "finalizers"}
        /\ (last.calls = <<"Sync", "UninstallRelease">>) => last.hasFinalizer
        /\ (last.calls = <<"Sync">>) => (~last.hasFinalizer \/ last.path = "syncerr")

C25_Witness ==
    /\ Fetched /\ last.deleted /\ ~last.hasFinalizer
    /\ last.path = "terminated" /\ last.calls = <<"Sync">>
    /\ last.isInstalled /\ last.err = <<>>
    /\ cr.exists /\ cr.deleted

\* C26: a reconcile whose Sync returns an error returns that error without
\* requeue-after, calls no operation of the manager besides Sync (no Tiller
\* call, no create or patch), and leaves the CR (finalizers and status) and
\* the cluster resources as they are; so a CR under deletion keeps its
\* sentinel.
C26_SyncErrorIsFatal ==
    [][(last'.syncErr # <<>>) =>
          /\ last'.err = last'.syncErr /\ ~last'.requeue
          /\ last'.calls = <<"Sync">> /\ last'.tcalls = <<>> /\ last'.kcalls = <<>>
          /\ last'.wrote = "none"
          /\ cr' = cr /\ live' = live
          /\ (cr.deleted /\ HasSentinel) => contains(cr'.finalizers, finalizer)]_vars

C26_Witness ==
    /\ last.syncErr # <<>> /\ last.err = last.syncErr
    /\ last.deleted /\ last.hasFinalizer
    /\ cr.exists /\ cr.deleted /\ HasSentinel
    /\ storage # {}

\* ------------------------------------------------- one Manager, many calls
\* The Manager interface lets a caller run Sync more than once on one
\* Manager.  `call` is the manager struct (spec and status as NewManager
\* copied them, the flags Sync caches) and the name and error of the last
\* call; the release operations are called as Reconcile calls them (after a
\* Sync, by its flags, one per Manager), Sync at any time.
NewManager(o) ==
    [op |-> "NewManager", spec |-> o.spec, status |-> StatusFor(o),
     isInstalled |-> FALSE, isUpdateRequired |-> FALSE, deployedRelease |-> NilRelease,
     err |-> <<>>, stale |-> {}, operated |-> FALSE]

\* manager.Sync on a Manager that may have been synced before: the fields are
\* only ever assigned on the paths that find a deployed release (lines
\* 592-593) and a differing candidate (600-602); no path resets them.
SyncCached(m, sy) ==
    [m EXCEPT !.isInstalled = IF sy.isInstalled THEN TRUE ELSE @,
              !.isUpdateRequired = IF sy.isUpdateRequired THEN TRUE ELSE @,
              !.deployedRelease = IF sy.deployedRelease # NilRelease
                                  THEN sy.deployedRelease ELSE @]

ManagerInit ==
    /\ \E s \in Specs :
          cr = [exists |-> TRUE, deleted |-> FALSE, finalizers |-> <<finalizer>>, spec |-> s,
                status |-> EmptyStatus]
    /\ storage = {}
    /\ live = Absent
    /\ last = NoLast
    /\ call = NewManager(cr)

ManagerStep(c, st, lv, m) ==
    /\ call.op # "none"
    /\ \A r \in st : r.version <= MaxVersion
    /\ cr' = c /\ storage' = st /\ live' = lv /\ call' = m
    /\ UNCHANGED last

\* The next reconcile: ManagerFactory.NewManager(o) for the CR as it is
\* fetched, with the spec a user may have edited in between.
ManagerNew(s) ==
    LET o == [cr EXCEPT !.spec = s]
    IN  ManagerStep(o, storage, live, NewManager(o))

ManagerSync(how) ==
    \E dep \in DeployedChoices(DeleteStale(syncReleaseStatus(storage, call.status))) :
       LET sy == Sync(storage, live, call.status, call.spec, how, dep)
           stale == {r.version : r \in {q \in syncReleaseStatus(storage, call.status) :
                                            q.code # Status_DEPLOYED}}
       IN  ManagerStep(cr, sy.storage, live,
                       [SyncCached(call, sy) EXCEPT !.op = "Sync", !.err = sy.err,
                                                    !.stale = stale])

Synced == call.op = "Sync" /\ call.err = <<>>

\* Reconcile is about to call its one release operation
Dispatching == Synced /\ ~call.operated

\* InstallRelease as Reconcile calls it, followed by the status write
ManagerInstall(out, recover, write) ==
    /\ Dispatching /\ ~call.isInstalled
    /\ LET r == installRelease(storage, live, call.spec, out, recover)
           status == SetPhase(SetRelease(StatusFor(cr), r.rel), PhaseApplied,
                              ReasonApplySuccessful, NotesOf(r.rel))
       IN  ManagerStep(IF r.err = <<>> THEN updateResource(cr, status, write) ELSE cr,
                       r.storage, r.live,
                       [call EXCEPT !.op = "InstallRelease", !.err = r.err, !.stale = {},
                                   !.operated = TRUE])

\* UpdateRelease as Reconcile calls it, followed by the status write; Tiller
\* looks up the deployed release itself.
ManagerUpdate(out, recover, write) ==
    /\ Dispatching /\ call.isInstalled /\ call.isUpdateRequired
    /\ \E cur \in DeployedChoices(storage) :
       LET r == updateRelease(storage, live, call.spec, cur, out, recover)
           status == SetPhase(SetRelease(StatusFor(cr), r.rel), PhaseApplied,
                              ReasonApplySuccessful, NotesOf(r.rel))
       IN  ManagerStep(IF r.err = <<>> THEN updateResource(cr, status, write) ELSE cr,
                       r.storage, r.live,
                       [call EXCEPT !.op = "UpdateRelease", !.err = r.err, !.stale = {},
                                   !.operated = TRUE])

\* UninstallRelease
ManagerUninstall(ok) ==
    /\ Dispatching
    /\ LET r == uninstallRelease(storage, live, ok)
       IN  ManagerStep(cr, r.storage, r.live,
                       [call EXCEPT !.op = "UninstallRelease", !.err = r.err, !.stale = {},
                                   !.operated = TRUE])

ManagerNext ==
    \/ \E s \in Specs : ManagerNew(s)
    \/ \E how \in {"ok", "chartErr", "candErr"} : ManagerSync(how)
    \/ \E out \in Outcomes, recover \in BOOLEAN, write \in BOOLEAN :
          ManagerInstall(out, recover, write)
    \/ \E out \in Outcomes, recover \in BOOLEAN, write \in BOOLEAN :
          ManagerUpdate(out, recover, write)
    \/ \E ok \in BOOLEAN : ManagerUninstall(ok)

ManagerSpec == ManagerInit /\ [][ManagerNext]_vars

\* C27: after every Sync that returns no error, every version in the history
\* of the Manager's release name has status code DEPLOYED.
C27_OnlyDeployedAfterSync ==
    Synced => \A r \in History(storage) : r.code = Status_DEPLOYED

C27_Witness ==
    /\ Synced /\ call.stale # {}
    /\ History(storage) # {}
    /\ \A r \in History(storage) : r.code = Status_DEPLOYED /\ r.version \notin call.stale

\* C28: Sync is idempotent: a Sync that directly follows a successful Sync on
\* the same Manager, and succeeds too, leaves the history and the values of
\* IsInstalled() and IsUpdateRequired() as the first one left them.
C28_SyncIdempotent ==
    [][(Synced /\ call'.op = "Sync" /\ call'.err = <<>>) =>
          /\ History(storage') = History(storage)
          /\ call'.isInstalled = call.isInstalled
          /\ call'.isUpdateRequired = call.isUpdateRequired]_vars

\* C29: IsInstalled() and IsUpdateRequired() are false on a new Manager; after
\* every successful Sync, the first or a later one, IsInstalled() is true
\* exactly when the storage has a DEPLOYED release for the release name and
\* IsUpdateRequired() is true exactly when IsInstalled() is and the manifest
\* of the dry-run candidate differs from the deployed one; so
\* IsUpdateRequired() implies IsInstalled().
C29_FlagsFollowLastSync ==
    /\ call.op = "NewManager" => (~call.isInstalled /\ ~call.isUpdateRequired)
    /\ Synced =>
          /\ call.isInstalled <=> (DeployedAll(storage) # {})
          /\ call.isUpdateRequired =>
                \E d \in DeployedAll(storage) : d.manifest # Render(call.spec)
          /\ (call.isInstalled /\ ~call.isUpdateRequired) =>
                \E d \in DeployedAll(storage) : d.manifest = Render(call.spec)
          /\ call.isUpdateRequired => call.isInstalled

\* C30 as claimed: after a successful install or update the CR is persisted
\* with status.release the returned release, phase Applied, reason
\* ApplySuccessful and the release's notes as message.
AppliedStatus(rel) ==
    [release |-> rel, phase |-> PhaseApplied, reason |-> ReasonApplySuccessful,
     message |-> NotesOf(rel)]

OperationSucceeded(l) == l.path \in {"install", "update"} /\ l.returned # NilRelease

C30_StatusPersisted ==
    OperationSucceeded(last) => (cr.exists /\ cr.status = AppliedStatus(last.returned))

\* C30 amended: after a successful install or update the reconciler, having
\* observed the sentinel and run Sync and the operation in this order, writes
\* the CR with status.release the returned (DEPLOYED) release, phase Applied,
\* reason ApplySuccessful and the release's notes as message.  When that
\* write succeeds the CR carries exactly this status and nothing else of it
\* has changed; when the write fails the CR is unchanged (its status is the
\* old one) and the reconcile returns the write's error.  Both ways it asks
\* for a requeue.  No other reconcile changes the status of a CR that stays,
\* so the status is never written before the operation has returned
\* successfully.
C30_StatusPersistedWhenWriteSucceeds ==
    [][/\ OperationSucceeded(last') =>
             /\ last'.hasFinalizer /\ ~last'.deleted
             /\ last'.calls \in {<<"Sync", "InstallRelease">>, <<"Sync", "UpdateRelease">>}
             /\ last'.wrote = "status" /\ last'.requeue
             /\ last'.returned.code = Status_DEPLOYED /\ last'.returned \in storage'
             /\ IF last'.err = <<>>
                THEN cr' = [cr EXCEPT !.status = AppliedStatus(last'.returned)]
                ELSE cr' = cr /\ last'.err = UpdateErr(FALSE)
       /\ (Fetched' /\ cr'.exists /\ cr'.status # cr.status) =>
             (OperationSucceeded(last') /\ last'.err = <<>>)]_vars

C30_Witness ==
    /\ OperationSucceeded(last) /\ last.path = "update" /\ last.err = <<>>
    /\ cr.status = AppliedStatus(last.returned)
    /\ cr.status.release.version = 2 /\ cr.status.message = "notes"
    /\ last.calls = <<"Sync", "UpdateRelease">>

\* -------------------------------------------------------- resync period
\* Durations are counted in seconds.
Minute == 60

\* What main() and other callers put into WatchOptions.ResyncPeriod: nothing
\* (zero), or the five seconds of the operator's main.
ResyncPeriods == {0, 5}

\* Add that hands the options' period on as it is.
Add_NoDefault(options) == [ResyncPeriod |-> options.ResyncPeriod]

\* controller.Add: the reconciler it builds gets the options' resync period,
\* one minute when that is zero.
Add(options) ==
    [ResyncPeriod |-> IF options.ResyncPeriod = 0 THEN Minute ELSE options.ResyncPeriod]

\* The RequeueAfter of the reconcile.Result a reconcile returned: r.ResyncPeriod
\* at the three returns after an operation, the zero of Result{} elsewhere.
RequeueAfter(l, r) == IF l.requeue THEN r.ResyncPeriod ELSE 0

\* A CR from its creation to its removal, reconciled with every outcome of
\* every call by a reconciler that Add has built.
ResyncInit ==
    /\ \E s \in Specs :
          cr = [exists |-> TRUE, deleted |-> FALSE, finalizers |-> <<>>, spec |-> s,
                status |-> EmptyStatus]
    /\ storage = {}
    /\ live = Absent
    /\ last = NoLast
    /\ \E p \in ResyncPeriods :
          call = [op |-> "Add", options |-> [ResyncPeriod |-> p],
                  r |-> Add([ResyncPeriod |-> p])]

ResyncNext ==
    \/ ReconcileStep
    \/ \E s \in Specs : UpdateSpec(s)
    \/ DeleteCR

ResyncSpec == ResyncInit /\ [][ResyncNext]_vars

\* C31: a reconcile that completes an install, an update or a drift repair
\* without error returns requeue-after equal to the configured resync period,
\* one minute when the watch options leave it zero; a reconcile that adds the
\* finalizer, finishes a deletion or observes NotFound returns no
\* requeue-after.
C31_RequeueAfterResyncPeriod ==
    /\ (last.path \in {"install", "update", "repair"} /\ last.err = <<>>) =>
          /\ last.calls[2] \in {"InstallRelease", "UpdateRelease", "ReconcileRelease"}
          /\ RequeueAfter(last, call.r) =
                (IF call.options.ResyncPeriod = 0 THEN 60 ELSE call.options.ResyncPeriod)
    /\ (last.path \in {"addfinalizer", "notfound"}
           \/ (last.path = "uninstall" /\ last.wrote = "finalizers")) =>
          RequeueAfter(last, call.r) = 0

C31_Witness ==
    /\ last.path = "repair" /\ last.err = <<>>
    /\ call.options.ResyncPeriod = 0
    /\ RequeueAfter(last, call.r) = 60

\* the reconcile that has just returned found the release installed and up to
\* date on a CR that carries the sentinel and is not being deleted: all it
\* had to do was the drift repair
OnlyRepair(l) ==
    /\ l.path \notin {"none", "notfound", "geterr"}
    /\ ~l.deleted /\ l.hasFinalizer /\ l.syncErr = <<>>
    /\ l.isInstalled /\ ~l.isUpdateRequired

\* C32: a reconcile that performs only drift repair does not write the CR:
\* it calls Sync and ReconcileRelease and nothing else, issues no
\* Client.Update, and the CR (its status with phase, reason, message and
\* release snapshot, and everything else the object carries) is the same
\* after the reconcile as before it, whether the repair succeeded or not.
C32_RepairWritesNothing ==
    [][OnlyRepair(last') =>
          /\ last'.calls = <<"Sync", "ReconcileRelease">>
          /\ last'.tcalls = <<>>
          /\ last'.wrote = "none"
          /\ cr' = cr]_vars

C32_Witness ==
    /\ OnlyRepair(last) /\ last.err = <<>>
    /\ last.kcalls = <<"Create", "Patch">>
    /\ cr.status.phase = PhaseApplied /\ cr.status.release.version = 2
    /\ live = cr.status.release.manifest

\* C33: a reconcile that performs only drift repair leaves the release
\* history of the CR unchanged: the same versions and the same length as
\* before the reconcile, also when it is the first reconcile after an update.
C33_RepairKeepsHistory ==
    [][OnlyRepair(last') =>
          /\ Cardinality(History(storage')) = Cardinality(History(storage))
          /\ {r.version : r \in History(storage')} = {r.version : r \in History(storage)}]_vars

\* C34: when during a drift repair the create fails with an error other than
\* "already exists", or the merge-patch fails, ReconcileRelease returns an
\* error (a repair that returns none has brought the resource to the deployed
\* manifest); the reconcile returns that error with no requeue-after and
\* without writing the CR; the failure creates and deletes no release version
\* (the history is the one Sync left); and nothing is attempted to recover:
\* no Tiller call, no further call on the cluster after the one that failed,
\* the resource is as it was.
C34_RepairFailureSurfaced ==
    [][/\ (OnlyRepair(last') /\ last'.err = <<>>) =>
             live' = last'.deployedRelease.manifest
       /\ (OnlyRepair(last') /\ last'.err # <<>>) =>
             /\ last'.err = IF live = Absent THEN <<"create error">> ELSE <<"patch error">>
             /\ last'.kcalls = IF live = Absent THEN <<"Create">> ELSE <<"Create", "Patch">>
             /\ ~last'.requeue
             /\ last'.wrote = "none" /\ cr' = cr
             /\ storage' = DeleteStale(syncReleaseStatus(storage, StatusFor(cr)))
             /\ last'.calls = <<"Sync", "ReconcileRelease">> /\ last'.tcalls = <<>>
             /\ live' = live]_vars

C34_Witness ==
    /\ OnlyRepair(last) /\ last.err = <<"patch error">>
    /\ ~last.requeue /\ last.wrote = "none"
    /\ live # last.deployedRelease.manifest
    /\ storage = {last.deployedRelease}

\* ------------------------- the reconciler that skips unchanged resources
\* helmOperatorReconciler of reconcile.go: it remembers, per namespaced name,
\* the resourceVersion of the CR it has last installed and skips a CR whose
\* resourceVersion is still that one.  Two CRs of the watched kind and two
\* workers; a key is never handed to two workers at once.  Every call on the
\* cluster and every operation on the mutex is one step.
RVKeys == {"ns/a", "ns/b"}

RVWorkers == {1, 2}

\* the zero value of a map: reads find nothing, a write panics
NilMap == [nil |-> TRUE, entries |-> [k \in RVKeys |-> 0]]

\* what Add leaves in the fields it does not name
ZeroMutex == [writer |-> 0, readers |-> {}]

\* Add: the reconciler is built from Client, GVK, Installer and ResyncPeriod;
\* lastResourceVersions and mutex keep their zero values.
NewReconciler == [lastResourceVersions |-> NilMap, mutex |-> ZeroMutex]

IdleWorker == [pc |-> "idle", key |-> "", rv |-> 0, v |-> 0, res |-> "none"]

\* RWMutex.RLock does not wait
CanRLock(mu) == mu.writer = 0

\* RWMutex.Lock does not wait
CanLock(mu) == mu.writer = 0 /\ mu.readers = {}

\* The CRs exist, without finalizers, each with the resourceVersion of its
\* creation; `kept` notes, per key, the value that the key's last successful
\* reconcile recorded (0: none yet).
RVInit ==
    /\ cr = Gone /\ storage = {} /\ live = Absent /\ last = NoLast
    /\ call = [op |-> "rv",
               objs |-> [k \in RVKeys |->
                            [exists |-> TRUE, deleted |-> FALSE, hasFinalizer |-> FALSE,
                             rv |-> IF k = "ns/a" THEN 1 ELSE 2]],
               next |-> 3,
               r |-> NewReconciler,
               w |-> [x \in RVWorkers |-> IdleWorker],
               kept |-> [k \in RVKeys |-> 0],
               crashed |-> FALSE]

RVStep(c) ==
    /\ c.next <= MaxRV + 1
    /\ call' = c
    /\ UNCHANGED <<cr, storage, live, last>>

Return(x, res) == [call EXCEPT !.w[x] = [IdleWorker EXCEPT !.res = res]]

\* an API write of object k that is accepted: the object gets a new
\* resourceVersion
Written(c, k, obj) ==
    [c EXCEPT !.objs[k] = [obj EXCEPT !.rv = c.next], !.next = c.next + 1]

\* lines 35-56 up to the first call after Client.Get
RVGet(x, k, ok) ==
    LET o == call.objs[k]
        at(pc) == [call EXCEPT !.w[x] = [IdleWorker EXCEPT !.pc = pc, !.key = k, !.rv = o.rv]]
    IN  /\ call.op = "rv" /\ ~call.crashed
        /\ call.w[x].pc = "idle"
        /\ \A y \in RVWorkers : call.w[y].key # k
        /\ IF ~o.exists THEN RVStep(Return(x, "notfound"))
           ELSE IF ~ok THEN RVStep(Return(x, "error"))
           ELSE IF ~o.deleted /\ ~o.hasFinalizer THEN RVStep(at("addfinalizer"))
           ELSE IF o.deleted
           THEN IF ~o.hasFinalizer THEN RVStep(Return(x, "terminated"))
                ELSE RVStep(at("uninstall"))
           ELSE RVStep(at("rlock"))

\* lines 52-55: Client.Update with the sentinel appended; the write is refused
\* when the object has changed since it was read
RVAddFinalizer(x, ok) ==
    LET k == call.w[x].key
        o == call.objs[k]
    IN  /\ call.op = "rv" /\ ~call.crashed /\ call.w[x].pc = "addfinalizer"
        /\ IF ok /\ o.rv = call.w[x].rv
           THEN RVStep(Written(Return(x, "finalizer"), k, [o EXCEPT !.hasFinalizer = TRUE]))
           ELSE RVStep(Return(x, "error"))

\* lines 63-76: UninstallRelease, then Client.Update without the sentinel: the
\* API server removes the object
RVUninstall(x, ok) ==
    LET k == call.w[x].key
        o == call.objs[k]
    IN  /\ call.op = "rv" /\ ~call.crashed /\ call.w[x].pc = "uninstall"
        /\ IF ok /\ o.rv = call.w[x].rv
           THEN RVStep([Return(x, "removed") EXCEPT !.objs[k].exists = FALSE])
           ELSE RVStep(Return(x, "error"))

\* getLastResourceVersion, line 111: r.mutex.RLock()
RVRLock(x) ==
    /\ call.op = "rv" /\ ~call.crashed /\ call.w[x].pc = "rlock"
    /\ CanRLock(call.r.mutex)
    /\ RVStep([call EXCEPT !.r.mutex.readers = @ \cup {x}, !.w[x].pc = "read"])

\* getLastResourceVersion, lines 112-114 and Reconcile, lines 80-83: read the
\* map, RUnlock, skip when the entry is there and equal.  A read that runs
\* while another worker writes the map is a data race: it finds anything.
RVRead(x) ==
    LET k == call.w[x].key
        m == call.r.lastResourceVersions
        racing == \E y \in RVWorkers \ {x} : call.w[y].pc = "write"
        unlocked == [call EXCEPT !.r.mutex.readers = @ \ {x}]
    IN  /\ call.op = "rv" /\ ~call.crashed /\ call.w[x].pc = "read"
        /\ \E lastResourceVersion \in
                 IF racing THEN 0..MaxRV ELSE {m.entries[k]} :
              IF lastResourceVersion # 0 /\ call.w[x].rv = lastResourceVersion
              THEN RVStep([unlocked EXCEPT !.w[x] = [IdleWorker EXCEPT !.res = "skipped"]])
              ELSE RVStep([unlocked EXCEPT !.w[x].pc = "install"])

\* lines 85-89: Installer.InstallRelease
RVInstall(x, ok) ==
    /\ call.op = "rv" /\ ~call.crashed /\ call.w[x].pc = "install"
    /\ IF ok THEN RVStep([call EXCEPT !.w[x].pc = "update"])
       ELSE RVStep(Return(x, "error"))

\* lines 91-96: Client.Update of the updated resource.  An accepted write
\* that changes the object gives it a new resourceVersion, one that changes
\* nothing leaves it; o.GetResourceVersion() afterwards is the version read
\* by Client.Get, or the written one when the updated resource is o itself.
RVUpdate(x, ok, changed, same) ==
    LET k == call.w[x].key
        o == call.objs[k]
        c == IF changed THEN Written(call, k, o) ELSE call
    IN  /\ call.op = "rv" /\ ~call.crashed /\ call.w[x].pc = "update"
        /\ IF ok /\ o.exists /\ o.rv = call.w[x].rv
           THEN RVStep([c EXCEPT !.w[x].pc = "lock",
                                 !.w[x].v = IF same THEN c.objs[k].rv ELSE call.w[x].rv])
           ELSE RVStep(Return(x, "error"))

\* setLastResourceVersion, line 118: r.mutex.Lock()
RVLock(x) ==
    /\ call.op = "rv" /\ ~call.crashed /\ call.w[x].pc = "lock"
    /\ CanLock(call.r.mutex)
    /\ RVStep([call EXCEPT !.r.mutex.writer = x, !.w[x].pc = "write"])

\* The entries a map assignment m[k] = v can leave when it runs by itself.
Assigned(m, k, v) == [m EXCEPT !.entries[k] = v]

\* setLastResourceVersion, lines 119-120: the assignment and the Unlock.  An
\* assignment to a nil map panics and takes the process down; one that runs
\* while another worker reads or writes the map is a data race and leaves the
\* map in any state (or the runtime stops the process).
RVWrite(x) ==
    LET k == call.w[x].key
        v == call.w[x].v
        m == call.r.lastResourceVersions
        racing == \E y \in RVWorkers \ {x} : call.w[y].pc \in {"read", "write"}
        done(e) == [call EXCEPT !.r.lastResourceVersions.entries = e,
                                !.r.mutex.writer = IF @ = x THEN 0 ELSE @,
                                !.kept[k] = v,
                                !.w[x] = [IdleWorker EXCEPT !.res = "done"]]
    IN  /\ call.op = "rv" /\ ~call.crashed /\ call.w[x].pc = "write"
        /\ IF m.nil
           THEN RVStep([call EXCEPT !.crashed = TRUE, !.w[x].res = "panic"])
           ELSE IF racing
           THEN \/ \E e \in [RVKeys -> 0..MaxRV] : RVStep(done(e))
                \/ RVStep([call EXCEPT !.crashed = TRUE, !.w[x].res = "panic"])
           ELSE RVStep(done(Assigned(m, k, v).entries))

\* The process has gone down: the operator starts again and Add builds a new
\* reconciler.
RVRestart ==
    /\ call.op = "rv" /\ call.crashed
    /\ RVStep([call EXCEPT !.crashed = FALSE, !.r = NewReconciler,
                           !.w = [x \in RVWorkers |-> IdleWorker],
                           !.kept = [k \in RVKeys |-> 0]])

\* A user edits the CR (kubectl apply).
RVEdit(k) ==
    /\ call.op = "rv" /\ call.objs[k].exists /\ ~call.objs[k].deleted
    /\ RVStep(Written(call, k, call.objs[k]))

\* A user deletes the CR.
RVDelete(k) ==
    /\ call.op = "rv" /\ call.objs[k].exists /\ ~call.objs[k].deleted
    /\ IF call.objs[k].hasFinalizer
       THEN RVStep(Written(call, k, [call.objs[k] EXCEPT !.deleted = TRUE]))
       ELSE RVStep([call EXCEPT !.objs[k].exists = FALSE])

RVNext ==
    \/ \E x \in RVWorkers, k \in RVKeys, ok \in BOOLEAN : RVGet(x, k, ok)
    \/ \E x \in RVWorkers, ok \in BOOLEAN : RVAddFinalizer(x, ok)
    \/ \E x \in RVWorkers, ok \in BOOLEAN : RVUninstall(x, ok)
    \/ \E x \in RVWorkers : RVRLock(x)
    \/ \E x \in RVWorkers : RVRead(x)
    \/ \E x \in RVWorkers, ok \in BOOLEAN : RVInstall(x, ok)
    \/ \E x \in RVWorkers, ok \in BOOLEAN, changed \in BOOLEAN, same \in BOOLEAN :
          RVUpdate(x, ok, changed, same)
    \/ \E x \in RVWorkers : RVLock(x)
    \/ \E x \in RVWorkers : RVWrite(x)
    \/ RVRestart
    \/ \E k \in RVKeys : RVEdit(k)
    \/ \E k \in RVKeys : RVDelete(k)

RVSpec == RVInit /\ [][RVNext]_vars

\* C35: the reconciler that skips unchanged CRs keeps the last-seen
\* resourceVersion per (namespace, name) under a mutex: a reconcile that has
\* installed the release and written the CR records the resourceVersion for
\* its key; a reconcile of key k is skipped only when k's resourceVersion
\* equals the value that k's own last successful reconcile recorded; no
\* worker is inside the map while another one writes it; and the recorded
\* values are at every moment the ones the last successful reconciles of the
\* keys recorded (none is lost or corrupted by a reconcile of another key).
C35_LastResourceVersionPerKey ==
    [][(call.op = "rv" /\ call'.op = "rv") =>
          /\ \A x \in RVWorkers :
                (call.w[x].pc = "write" /\ call'.w[x] # call.w[x]) =>
                   /\ ~call'.crashed /\ call'.w[x].res = "done"
                   /\ call'.r.lastResourceVersions.entries[call.w[x].key] = call.w[x].v
          /\ \A x \in RVWorkers :
                (call.w[x].pc = "read" /\ call'.w[x].res = "skipped") =>
                   /\ call.kept[call.w[x].key] # 0
                   /\ call.w[x].rv = call.kept[call.w[x].key]
          /\ \A x \in RVWorkers, y \in RVWorkers :
                ~(x # y /\ call'.w[x].pc = "write" /\ call'.w[y].pc \in {"read", "write"})
          /\ ~call'.crashed => call'.r.lastResourceVersions.entries = call'.kept]_vars

\* ------------------------------------------------- finalizers of others
\* The finalizer lists a CR is created with: finalizers of other controllers
\* in either order, and lists into which the user has put the sentinel.
FinalizerLists ==
    {<<>>, <<OtherFinalizer>>, <<OtherFinalizer, "orphan">>, <<"orphan", OtherFinalizer>>,
     <<finalizer, OtherFinalizer>>, <<"orphan", finalizer, OtherFinalizer>>}

FinalizerInit ==
    /\ \E f \in FinalizerLists, s \in Specs :
          cr = [exists |-> TRUE, deleted |-> FALSE, finalizers |-> f, spec |-> s,
                status |-> EmptyStatus]
    /\ storage = {}
    /\ live = Absent
    /\ last = NoLast
    /\ call = NoCall

FinalizerNext ==
    \/ ReconcileStep
    \/ DeleteCR
    \/ RemoveOtherFinalizer

FinalizerSpec == FinalizerInit /\ [][FinalizerNext]_vars

\* the finalizers of the other controllers, in their order
OtherFinalizers(l) == SelectSeq(l, LAMBDA x : x # finalizer)

\* C36: a reconcile changes the finalizer list of a CR only in its own
\* sentinel: it appends the sentinel after the existing finalizers, and only
\* to a list of a CR not under deletion that does not hold it; or it removes
\* the entries equal to the sentinel, and only from a CR under deletion that
\* holds it; the other finalizers stay, in their order, and a CR is removed
\* by the reconcile's write only when no other finalizer is left.
C36_OnlyOwnSentinel ==
    [][last'.path # "none" =>
          IF cr'.exists
          THEN /\ OtherFinalizers(cr'.finalizers) = OtherFinalizers(cr.finalizers)
               /\ \/ cr'.finalizers = cr.finalizers
                  \/ /\ cr'.finalizers = Append(cr.finalizers, finalizer)
                     /\ ~contains(cr.finalizers, finalizer) /\ ~cr.deleted
                     /\ last'.path = "addfinalizer"
                  \/ /\ cr'.finalizers = OtherFinalizers(cr.finalizers)
                     /\ contains(cr.finalizers, finalizer) /\ cr.deleted
                     /\ last'.path = "uninstall"
               /\ Cardinality({i \in 1..Len(cr'.finalizers) : cr'.finalizers[i] = finalizer})
                     <= Cardinality({i \in 1..Len(cr.finalizers) : cr.finalizers[i] = finalizer})
                        + (IF last'.path = "addfinalizer" THEN 1 ELSE 0)
          ELSE cr.exists =>
                  /\ OtherFinalizers(cr.finalizers) = <<>>
                  /\ contains(cr.finalizers, finalizer) /\ cr.deleted
                  /\ last'.path = "uninstall"]_vars

C36_Witness ==
    /\ last.path = "uninstall" /\ last.wrote = "finalizers" /\ last.err = <<>>
    /\ cr.exists /\ cr.deleted
    /\ cr.finalizers = <<"orphan", OtherFinalizer>>

\* ------------------------------------- one failed status write, then none
\* the status of the CR tells what the storage holds: no write of it is
\* outstanding
StatusInSync ==
    IF cr.status.release = NilRelease THEN storage = {} ELSE cr.status.release \in storage

\* A reconcile whose install or update succeeds and whose status write the
\* API server refuses.
FailedStatusWrite ==
    /\ StatusInSync
    /\ \E dep \in DeployedChoices(DeleteStale(syncReleaseStatus(storage, StatusFor(cr)))) :
          Reconcile([OkInput EXCEPT !.write = FALSE], dep)
    /\ last'.wrote = "status"

\* A CR that nobody deletes: the spec is edited and a status write fails only
\* while no status write is outstanding; every other call of every reconcile
\* succeeds, and the controller goes on reconciling (resync period, watch
\* events).
RetryNext ==
    \/ ReconcileOk
    \/ FailedStatusWrite
    \/ \E s \in Specs : StatusInSync /\ UpdateSpec(s)
    \/ \E v \in DriftValues : Drift(v)

RetrySpec == RecoveryInit /\ [][RetryNext]_vars /\ WF_vars(ReconcileOk)

\* the status write of a successful install or update has just failed
StatusWriteFailed ==
    /\ last.path \in {"install", "update"} /\ last.returned # NilRelease
    /\ last.wrote = "status" /\ last.err # <<>>

\* C37: when the CR write that persists the status after a successful install
\* or update fails, then, with the spec unchanged and every later call
\* succeeding, under fair scheduling of the reconciles, some later reconcile
\* persists a status with phase Applied whose release is the DEPLOYED release.
C37_StatusEventuallyPersisted ==
    StatusWriteFailed ~>
        (cr.status.phase = PhaseApplied /\ cr.status.release \in DeployedAll(storage))

\* the reconcile that has just returned called UninstallRelease and Tiller
\* purged the release
Purged(l) ==
    /\ l.path = "uninstall" /\ l.tcalls = <<"UninstallRelease">>
    /\ History(storage) = {}

\* C38: once UninstallRelease has purged the release of a CR, no later
\* reconcile of that CR puts a release record for it back into the storage,
\* also while the CR is still there (the write that removes the sentinel
\* failed, or other finalizers keep the CR under deletion).
C38_PurgedStaysPurged ==
    [][(Purged(last) /\ cr.exists /\ last'.path # "none") => History(storage') = {}]_vars

\* C39: a Render in which a file named *.yaml does not parse fails with an
\* error whose text names one of the files that did not parse and returns no
\* file at all, and a Render that succeeds returns no file named *.yaml whose
\* document has no fields.
Unparsed(rendered) ==
    {n \in DOMAIN rendered : HasYamlSuffix(n) /\ FromYaml(rendered[n]) = BadDoc}

C39_RenderErrorNamesFile ==
    (call.op = "Render") =>
        /\ Unparsed(call.rendered) # {} =>
              /\ call.err # <<>>
              /\ DOMAIN call.out = {}
              /\ \E n \in Unparsed(call.rendered), i \in 1..Len(call.err) :
                    call.err[i] = n.stem
        /\ call.err = <<>> =>
              \A n \in DOMAIN call.rendered :
                 (HasYamlSuffix(n) /\ FromYaml(call.rendered[n]) = EmptyDoc)
                    => n \notin DOMAIN call.out

====
